---- MODULE Spec2Model ----
(***************************************************************************)
(* Project / Task REST backend (Express handlers over Prisma / MySQL).     *)
(*                                                                         *)
(* The database is two tables, Project and Task, with the foreign key      *)
(* Task.projectId -> Project.id ON DELETE CASCADE.  Every HTTP request is  *)
(* served by an async handler; each awaited Prisma call is one database    *)
(* statement and therefore one atomic step, and the handlers of different  *)
(* requests interleave between their awaits.                               *)
(***************************************************************************)
EXTENDS Integers, Sequences, FiniteSets, TLC

\* ---------------------------------------------------------------- bounds
\* Number of project ids the AUTO_INCREMENT counter hands out.
MaxProjects == 2
\* Number of task ids the AUTO_INCREMENT counter hands out.
MaxTasks == 2
\* Requests the clients send in one run.
MaxRequests == 3

\* The handlers that can be in flight at the same time.
Slots == {"r1", "r2"}

\* ------------------------------------------------------- JavaScript values
Undefined == "undefined"
JsTrue == "true"
JsFalse == "false"
NaN == -1

\* Number(param) of a route parameter: a decimal string is its value,
\* anything else is NaN.
Number(s) ==
  CASE s = "0" -> 0
    [] s = "1" -> 1
    [] s = "2" -> 2
    [] s = "3" -> 3
    [] s = "4" -> 4
    [] s = "5" -> 5
    [] OTHER -> NaN

isNaN(n) == n = NaN

\* !v for the values a JSON body field takes here.
Falsy(v) == v \in {Undefined, "", JsFalse}

\* Boolean(v)
Boolean(v) == ~Falsy(v)

InvalidDate == 0

\* new Date(s) of an ISO date string; any other string is an Invalid Date.
NewDate(s) ==
  CASE s = "2024-01-01" -> 20240101
    [] s = "2024-01-05" -> 20240105
    [] OTHER -> InvalidDate

\* --------------------------------------------------------- request inputs
Digits == <<"1", "2", "3", "4", "5">>
ProjectIdParams == {Digits[i] : i \in 1..MaxProjects} \cup {"abc"}
TaskIdParams == {Digits[i] : i \in 1..MaxTasks} \cup {"abc"}

EmptyBody ==
  [name |-> Undefined, startDate |-> Undefined, title |-> Undefined,
   description |-> Undefined, dueDate |-> Undefined,
   isCompleted |-> Undefined, projectId |-> Undefined,
   hasTasks |-> FALSE, tasks |-> <<>>]

\* Elements of the initial task array of POST /projects: isCompleted left
\* out, true and false; and an element without its title.
ItemPlain ==
  [title |-> "t1", description |-> "d1", dueDate |-> "2024-01-05", isCompleted |-> Undefined]
ItemCompleted == [ItemPlain EXCEPT !.isCompleted = JsTrue]
ItemPending == [ItemPlain EXCEPT !.isCompleted = JsFalse]
ItemUntitled == [ItemPlain EXCEPT !.title = Undefined]

InitialTaskArrays ==
  {<<>>, <<ItemPlain>>, <<ItemCompleted>>, <<ItemUntitled>>,
   <<ItemPlain, ItemCompleted>>, <<ItemCompleted, ItemPending>>,
   <<ItemPlain, ItemUntitled>>, <<ItemUntitled, ItemPlain>>}

ProjectBodies ==
  {[EmptyBody EXCEPT !.name = n, !.description = "pd", !.startDate = sd]
     : n \in {"n1", ""}, sd \in {"2024-01-01", Undefined}}

\* Bodies of PUT /projects/:id: empty; a name with an empty description; a
\* description and a start date with an empty name; a start date that is
\* no date.
UpdateProjectBodies ==
  {EmptyBody,
   [EmptyBody EXCEPT !.name = "n2", !.description = ""],
   [EmptyBody EXCEPT !.name = "", !.description = "pd2", !.startDate = "2024-01-05"],
   [EmptyBody EXCEPT !.name = "n2", !.startDate = "soon"]}

InsertProjectBodies ==
  ProjectBodies \cup
  {[EmptyBody EXCEPT !.name = "n1", !.description = "pd", !.startDate = "2024-01-01",
                     !.hasTasks = TRUE, !.tasks = a] : a \in InitialTaskArrays}

\* Bodies of POST /projects/:projectId/tasks: with and without a title, with
\* a date and with a string that is none; each carries an isCompleted and a
\* projectId, which are no fields of the creation.
CreateTaskBodies ==
  {[EmptyBody EXCEPT !.title = t, !.description = "d1", !.dueDate = d,
                     !.isCompleted = JsTrue, !.projectId = "2"]
     : t \in {"t1", Undefined}, d \in {"2024-01-05", "soon"}}

\* Bodies of PATCH /projects/:projectId/tasks/:taskId: empty; isCompleted
\* with a projectId, which is no field of the update; a title and a due
\* date with an empty description and isCompleted false.
UpdateTaskBodies ==
  {EmptyBody,
   [EmptyBody EXCEPT !.isCompleted = JsTrue, !.projectId = "2"],
   [EmptyBody EXCEPT !.title = "t2", !.description = "", !.dueDate = "2024-01-01",
                     !.isCompleted = JsFalse]}

\* ---------------------------------------------------------------- routing
\* The routes registered on the routers mounted under /api: method, path
\* and handler.
Routes ==
  {<<"GET", "/projects", "getAllProjects">>,
   <<"GET", "/projects/:id", "getProjectById">>,
   <<"POST", "/projects", "insertProject">>,
   <<"PUT", "/projects/:id", "updateProject">>,
   <<"DELETE", "/projects/:id", "deleteProject">>,
   <<"GET", "/projects/:projectId/tasks", "getAllTasks">>,
   <<"POST", "/projects/:projectId/tasks", "createTask">>,
   <<"PATCH", "/projects/:projectId/tasks/:taskId", "updateTask">>,
   <<"PATCH", "/projects/:projectId/tasks/:taskId/complete", "toggleTaskCompletion">>,
   <<"DELETE", "/projects/:projectId/tasks/:taskId", "deleteTask">>}

\* The handler Express runs for a request line, "none" when no route
\* matches its method and path.
Handler(line) ==
  IF \E rt \in Routes : <<rt[1], rt[2]>> = line
  THEN (CHOOSE rt \in Routes : <<rt[1], rt[2]>> = line)[3]
  ELSE "none"

\* For every handler, the request line that reaches it.
RequestLines ==
  [op \in {rt[3] : rt \in Routes} |->
     CHOOSE line \in {<<rt[1], rt[2]>> : rt \in Routes} : Handler(line) = op]

\* The request line that reaches the handler op.
RequestLineOf(op) == RequestLines[op]

\* Request lines the clients send besides those of the handlers: the task
\* update as the README documents it.
OtherRequestLines == {<<"PUT", "/projects/:projectId/tasks/:taskId">>}

\* ------------------------------------------------------------------ state
VARIABLES
  projects,       \* table Project: id -> row
  tasks,          \* table Task: id -> row
  nextProjectId,  \* AUTO_INCREMENT of Project.id
  nextTaskId,     \* AUTO_INCREMENT of Task.id
  req,            \* per slot: the handler's position, locals and response
  hist,           \* per stored task: what the last write to it was
  served,         \* number of requests accepted so far
  TaskReducer,    \* Redux store of the browser client: state of the task slice
  ProjectReducer, \* Redux store: state of the project slice
  dispatched,     \* the action the store received last
  thunks,         \* the async thunks dispatched, each with its HTTP exchange
  isOpen,         \* TaskManagementModal: whether it is open
  app,            \* the server process: its App instance, from start to exit
  instance,       \* a Project instance: its this.data
  stats           \* what getBasicStats() returned for it

\* The state outside the request handlers: the browser client, the start of
\* the process and the Project instances, which no handler step touches.
elsewhere == <<TaskReducer, ProjectReducer, dispatched, thunks, isOpen, app, instance, stats>>

vars == <<projects, tasks, nextProjectId, nextTaskId, req, hist, served,
          TaskReducer, ProjectReducer, dispatched, thunks, isOpen, app, instance, stats>>

Null == "null"

\* initialState of the task slice.
TaskInitialState ==
  [tasks |-> <<>>, task |-> Null, loading |-> FALSE, insertSuccess |-> FALSE,
   updateSuccess |-> FALSE, deleteSuccess |-> FALSE, error |-> FALSE, message |-> ""]

\* initialState of the project slice.
ProjectInitialState ==
  [projects |-> <<>>, project |-> Null, loading |-> FALSE, insertSuccess |-> FALSE,
   updateSuccess |-> FALSE, deleteSuccess |-> FALSE, error |-> FALSE, message |-> "",
   pagination |-> [page |-> 1, limit |-> 10, total |-> 0, pages |-> 1]]

\* Before the first dispatch.
NoAction == [type |-> "@@INIT", payload |-> Null, n |-> 0]

\* No process has been started.
NotExited == -1
NoProcess ==
  [pc |-> "none", middlewares |-> <<>>, routes |-> <<>>, db |-> "idle", server |-> "none",
   accepted |-> <<>>, SIGTERM |-> "idle", SIGINT |-> "idle", exit |-> NotExited]

\* No Project instance has been built.
NoInstance == [hasTasks |-> FALSE, tasks |-> <<>>]
NoStats == [status |-> "none"]

\* The browser client has loaded nothing, no server process is looked at
\* and no Project instance is built.
ElsewhereIdle ==
  /\ TaskReducer = TaskInitialState
  /\ ProjectReducer = ProjectInitialState
  /\ dispatched = NoAction
  /\ thunks = <<>>
  /\ isOpen = FALSE
  /\ app = NoProcess
  /\ instance = NoInstance
  /\ stats = NoStats

NoTask == [found |-> FALSE, projectId |-> 0, isCompleted |-> FALSE]
NoData == [kind |-> "none"]
OtherWrite == [kind |-> "other", orig |-> FALSE, resp |-> FALSE, twice |-> FALSE]

IdleReq ==
  [op |-> "none", line |-> <<"", "">>, pc |-> "idle", pid |-> "", tid |-> "",
   body |-> EmptyBody,
   project |-> FALSE, existingTask |-> NoTask, clean |-> FALSE, raced |-> FALSE,
   status |-> 0, success |-> FALSE, message |-> "", data |-> NoData, error |-> ""]

Init ==
  /\ projects = <<>>
  /\ tasks = <<>>
  /\ nextProjectId = 1
  /\ nextTaskId = 1
  /\ req = [r \in Slots |-> IdleReq]
  /\ hist = <<>>
  /\ served = 0
  /\ ElsewhereIdle

\* ------------------------------------------------------------- responses
ProjectNotFound == "Project not found"
TaskNotFound == "Task not found"
TaskNotInProject == "Task does not belong to this project"
InvalidProjectId == "Invalid project ID"
InvalidTaskId == "Invalid task ID"

\* Slot r is the one the next request a client sends is served on: a free
\* slot, one that holds no response before one that holds the latest, and
\* of two alike the first (the slots are interchangeable).
Accepting(r) ==
  /\ served < MaxRequests
  /\ req[r].pc \in {"idle", "done"}
  /\ \A s \in Slots \ {r} :
       \/ req[s].pc \notin {"idle", "done"}
       \/ req[s].pc = "done" /\ req[r].pc = "idle"
       \/ req[s].pc = req[r].pc /\ r = "r1"

\* Task ids that the createTask calls in flight on the other slots will take.
InsertsInFlight(r) ==
  Cardinality({s \in Slots \ {r} : req[s].op = "createTask" /\ req[s].pc = "insert"})

\* A request whose project lookup (its first statement) found the project.
NewReq(op, pid, tid, body, pc) ==
  [IdleReq EXCEPT !.op = op, !.line = RequestLineOf(op), !.pid = pid, !.tid = tid,
                  !.body = body, !.pc = pc, !.project = TRUE]

\* res.status(status).json({success, message, data}); the handler returns
\* and its locals are gone.  The 200 and 201 responses are the ones written
\* with success: true.
Respond(cur, status, message, data) ==
  [cur EXCEPT !.pc = "done", !.project = FALSE, !.existingTask = NoTask,
              !.clean = FALSE, !.raced = FALSE, !.status = status,
              !.success = status \in {200, 201}, !.message = message,
              !.data = data]

\* The catch block of a handler: the error thrown by Prisma becomes
\* res.status(500).json({success: false, message, error: error.message}).
ValidationError == "validation"
ForeignKeyError == "P2003"
RecordNotFoundError == "P2025"

\* A handler without the catch block: the rejection is not handled and no
\* response is written.
Unhandled(cur, message, error) ==
  [Respond(cur, 0, "", NoData) EXCEPT !.error = error]

Fail(cur, message, error) ==
  [Respond(cur, 500, message, NoData) EXCEPT !.error = error]

\* The statement slot r runs is the write of a toggle that read its task
\* with no write to it since.
CleanToggleWrite(r) ==
  /\ req[r].op = "toggleTaskCompletion"
  /\ req[r].pc = "write"
  /\ req[r].clean

\* The slots after slot r moved to nr and the statement wrote the tasks T.
\* A handler that holds a row of T read before this write is no longer
\* alone with it; it has raced when it is a toggle and the write is the
\* write of another toggle that read the same row, and that only until the
\* next write to the row.  Only the response sent last is kept for
\* observation.
ReqAfter(r, nr, T) ==
  [s \in Slots |->
     IF s = r THEN nr
     ELSE IF nr.pc = "done" /\ req[s].pc = "done" THEN IdleReq
     ELSE IF (req[s].clean \/ req[s].raced) /\ Number(req[s].tid) \in T
          THEN [req[s] EXCEPT !.clean = FALSE,
                              !.raced = /\ req[s].clean
                                        /\ CleanToggleWrite(s)
                                        /\ CleanToggleWrite(r)
                                        /\ nr.status = 200]
          ELSE req[s]]

\* ---------------------------------------------------------------- tables
SetMin(S) == CHOOSE m \in S : \A x \in S : m <= x

RECURSIVE Ascending(_)
Ascending(S) ==
  IF S = {} THEN <<>>
  ELSE LET m == SetMin(S) IN <<m>> \o Ascending(S \ {m})

\* A Task row as Prisma returns it.
TaskRow(T, id) ==
  [id |-> id, projectId |-> T[id].projectId, title |-> T[id].title,
   description |-> T[id].description, dueDate |-> T[id].dueDate,
   isCompleted |-> T[id].isCompleted, createdAt |-> T[id].createdAt]

TaskIdsOf(T, p) == {t \in DOMAIN T : T[t].projectId = p}

\* The ways to list the rows ids of T, each once, in which every row stands
\* before every row created earlier (descending) or later (otherwise).
Listings(T, ids, descending) ==
  LET n == Cardinality(ids)
  IN {[i \in 1..n |-> TaskRow(T, f[i])] :
        f \in {g \in [1..n -> ids] :
                 /\ \A i, j \in 1..n : i # j => g[i] # g[j]
                 /\ \A i, j \in 1..n : i < j => IF descending
                                                  THEN T[g[i]].createdAt >= T[g[j]].createdAt
                                                  ELSE T[g[i]].createdAt <= T[g[j]].createdAt}}

\* orderBy: { createdAt: 'asc' }
OldestFirst(T, p) ==
  Listings(T, TaskIdsOf(T, p), FALSE)

\* where: { projectId }, orderBy: { createdAt: 'desc' }: the rows of project
\* p, newest first; rows of equal createdAt come in either order.
NewestFirst(T, p) ==
  Listings(T, TaskIdsOf(T, p), TRUE)

\* include: { tasks: true }
TasksIncluded(T, p) ==
  LET ids == Ascending(TaskIdsOf(T, p))
  IN [i \in 1..Len(ids) |-> TaskRow(T, ids[i])]

ProjectData(P, id, taskList) ==
  [kind |-> "project", id |-> id, name |-> P[id].name,
   description |-> P[id].description, startDate |-> P[id].startDate,
   tasks |-> taskList]

TaskData(T, id) == [kind |-> "task", task |-> TaskRow(T, id)]

TaskListData(taskList) == [kind |-> "tasks", tasks |-> taskList]

\* Rows of f outside D.
Without(f, D) == [i \in DOMAIN f \ D |-> f[i]]

\* A schema without ON DELETE CASCADE.
NoCascade(T, p) == T

\* DELETE FROM Project WHERE id = p, with Task.projectId ON DELETE CASCADE.
CascadeDelete(T, p) == Without(T, TaskIdsOf(T, p))

\* A schema without the foreign key.
ForeignKeyUnchecked(P, p) == TRUE

\* INSERT INTO Task: the foreign key Task_projectId_fkey must resolve.
ForeignKeyHolds(P, p) == p \in DOMAIN P

\* A handler that takes the project for granted.
ProjectAssumed(id) == TRUE

\* prisma.project.findUnique({ where: { id } }) returned a row.
ProjectExists(id) == id \in DOMAIN projects

\* prisma.task.findUnique({ where: { id } }): the row, or null.
TaskFindUnique(id) ==
  IF id \in DOMAIN tasks
  THEN [found |-> TRUE, projectId |-> tasks[id].projectId,
        isCompleted |-> tasks[id].isCompleted]
  ELSE NoTask

\* A toggle that marks the task completed whatever it was.
MarkCompleted(existingTask) == TRUE

\* !existingTask.isCompleted
Negated(existingTask) == ~existingTask.isCompleted

\* Prisma rejects a row whose NOT NULL columns are missing or ill-typed.
ValidTaskCreate(d) ==
  /\ d.title # Undefined
  /\ d.description # Undefined
  /\ d.dueDate # InvalidDate
  /\ d.isCompleted \in {JsTrue, JsFalse}

\* The row a create statement stores.  createdAt defaults to the time of
\* the statement, now: the rows of one nested create share it, and a later
\* statement has a later one.
StoredTask(d, p, now) ==
  [projectId |-> p, title |-> d.title, description |-> d.description,
   dueDate |-> d.dueDate, isCompleted |-> (d.isCompleted = JsTrue),
   createdAt |-> now]

\* ------------------------------------------------------- unrouted requests
\* A request whose method and path match no route falls through the
\* routers to the final handler of Express, which answers 404.
notFound(r) ==
  /\ Accepting(r)
  /\ served' = served + 1
  /\ UNCHANGED elsewhere
  /\ \E line \in OtherRequestLines :
       /\ Handler(line) = "none"
       /\ req' = ReqAfter(r, Respond([IdleReq EXCEPT !.line = line], 404,
                                     "Cannot " \o line[1] \o " /api" \o line[2], NoData), {})
  /\ UNCHANGED <<projects, tasks, hist, nextProjectId, nextTaskId>>

\* ------------------------------------------------------ project handlers
\* An element built without looking at the isCompleted it was given.
CreateItemPending(task) ==
  [title |-> task.title, description |-> task.description,
   dueDate |-> NewDate(task.dueDate), isCompleted |-> JsFalse]

\* The element of data.tasks.create built from one element of the array.
CreateItem(task) ==
  [title |-> task.title, description |-> task.description,
   dueDate |-> NewDate(task.dueDate),
   isCompleted |-> IF Falsy(task.isCompleted) THEN JsFalse ELSE task.isCompleted]

\* The project row and then each task row written by a statement of its
\* own: the rows before the first refused element stay.
createProjectSequential(r, cur, body) ==
  LET items == IF body.hasTasks
               THEN [i \in 1..Len(body.tasks) |-> CreateItem(body.tasks[i])]
               ELSE <<>>
      n == Len(items)
      bad == {i \in 1..n : ~ValidTaskCreate(items[i])}
      k == IF bad = {} THEN n ELSE SetMin(bad) - 1
      id == nextProjectId
      new == nextTaskId..(nextTaskId + k - 1)
      P2 == projects @@ (id :> [name |-> body.name, description |-> body.description,
                                startDate |-> NewDate(body.startDate)])
      T2 == tasks @@ [t \in new |-> StoredTask(items[t - nextTaskId + 1], id, nextTaskId)]
  IN /\ NewDate(body.startDate) # InvalidDate
     /\ nextProjectId <= MaxProjects
     /\ nextTaskId + k - 1 <= MaxTasks
     /\ projects' = P2
     /\ tasks' = T2
     /\ hist' = hist @@ [t \in new |-> OtherWrite]
     /\ nextProjectId' = nextProjectId + 1
     /\ nextTaskId' = nextTaskId + k
     /\ req' = ReqAfter(r,
                 IF bad = {}
                 THEN Respond(cur, 201, "Project created successfully",
                              ProjectData(P2, id, TasksIncluded(T2, id)))
                 ELSE Fail(cur, "Failed to create project", ValidationError), {})

\* Project.createProject: one prisma.project.create with the nested
\* tasks.create, which the database executes as one transaction.
createProject(r, cur, body) ==
  LET items == IF body.hasTasks
               THEN [i \in 1..Len(body.tasks) |-> CreateItem(body.tasks[i])]
               ELSE <<>>
      n == Len(items)
      ok == /\ NewDate(body.startDate) # InvalidDate
            /\ \A i \in 1..n : ValidTaskCreate(items[i])
      id == nextProjectId
      new == nextTaskId..(nextTaskId + n - 1)
      P2 == projects @@ (id :> [name |-> body.name, description |-> body.description,
                                startDate |-> NewDate(body.startDate)])
      T2 == tasks @@ [t \in new |-> StoredTask(items[t - nextTaskId + 1], id, nextTaskId)]
  IN IF ok
     THEN /\ nextProjectId <= MaxProjects
          /\ nextTaskId + n - 1 + InsertsInFlight(r) <= MaxTasks
          /\ projects' = P2
          /\ tasks' = T2
          /\ hist' = hist @@ [t \in new |-> OtherWrite]
          /\ nextProjectId' = nextProjectId + 1
          /\ nextTaskId' = nextTaskId + n
          /\ req' = ReqAfter(r, Respond(cur, 201, "Project created successfully",
                                        ProjectData(P2, id, TasksIncluded(T2, id))), {})
     ELSE /\ req' = ReqAfter(r, Fail(cur, "Failed to create project", ValidationError), {})
          /\ UNCHANGED <<projects, tasks, hist, nextProjectId, nextTaskId>>

\* POST /projects
insertProject(r) ==
  /\ Accepting(r)
  /\ served' = served + 1
  /\ UNCHANGED elsewhere
  /\ \E body \in InsertProjectBodies :
       LET cur == NewReq("insertProject", "", "", body, "start")
       IN IF Falsy(body.name) \/ Falsy(body.description) \/ Falsy(body.startDate)
          THEN /\ req' = ReqAfter(r, Respond(cur, 400,
                             "Name, description, and start date are required", NoData), {})
               /\ UNCHANGED <<projects, tasks, hist, nextProjectId, nextTaskId>>
          ELSE createProject(r, cur, body)

\* PUT /projects/:id, up to the existence check of Project.updateProject.
updateProject(r) ==
  /\ Accepting(r)
  /\ served' = served + 1
  /\ UNCHANGED elsewhere
  /\ \E pid \in ProjectIdParams, body \in UpdateProjectBodies :
       LET cur == NewReq("updateProject", pid, "", body, "update")
       IN /\ req' = ReqAfter(r,
                 IF isNaN(Number(pid))
                 THEN Respond(cur, 400, InvalidProjectId, NoData)
                 ELSE IF ~ProjectExists(Number(pid))
                 THEN Respond(cur, 404, ProjectNotFound, NoData)
                 ELSE cur, {})
          /\ UNCHANGED <<projects, tasks, hist, nextProjectId, nextTaskId>>

\* if (name !== undefined) ...: a field is written when it is present, an
\* empty string too.
updateProjectWriteDefined(r) ==
  /\ UNCHANGED <<served, elsewhere>>
  /\ req[r].op = "updateProject"
  /\ req[r].pc = "update"
  /\ LET id == Number(req[r].pid)
         b == req[r].body
         date == NewDate(b.startDate)
         P2 == [projects EXCEPT
                  ![id].name = IF b.name = Undefined THEN @ ELSE b.name,
                  ![id].description = IF b.description = Undefined THEN @ ELSE b.description,
                  ![id].startDate = IF b.startDate = Undefined THEN @ ELSE date]
     IN IF id \in DOMAIN projects /\ (b.startDate = Undefined \/ date # InvalidDate)
        THEN /\ projects' = P2
             /\ \E taskList \in NewestFirst(tasks, id) :
                  req' = ReqAfter(r, Respond(req[r], 200, "Project updated successfully",
                                             ProjectData(P2, id, taskList)), {})
             /\ UNCHANGED <<tasks, hist, nextProjectId, nextTaskId>>
        ELSE /\ req' = ReqAfter(r, Fail(req[r], "Failed to update project",
                                  IF id \in DOMAIN projects THEN ValidationError
                                  ELSE RecordNotFoundError), {})
             /\ UNCHANGED <<projects, tasks, hist, nextProjectId, nextTaskId>>

\* prisma.project.update of Project.updateProject and the response.
updateProjectWrite(r) ==
  /\ UNCHANGED <<served, elsewhere>>
  /\ req[r].op = "updateProject"
  /\ req[r].pc = "update"
  /\ LET id == Number(req[r].pid)
         b == req[r].body
         date == NewDate(b.startDate)
         P2 == [projects EXCEPT
                  ![id].name = IF Falsy(b.name) THEN @ ELSE b.name,
                  ![id].description = IF Falsy(b.description) THEN @ ELSE b.description,
                  ![id].startDate = IF Falsy(b.startDate) THEN @ ELSE date]
     IN IF id \in DOMAIN projects /\ (Falsy(b.startDate) \/ date # InvalidDate)
        THEN /\ projects' = P2
             /\ \E taskList \in NewestFirst(tasks, id) :
                  req' = ReqAfter(r, Respond(req[r], 200, "Project updated successfully",
                                             ProjectData(P2, id, taskList)), {})
             /\ UNCHANGED <<tasks, hist, nextProjectId, nextTaskId>>
        ELSE /\ req' = ReqAfter(r, Fail(req[r], "Failed to update project",
                                  IF id \in DOMAIN projects THEN ValidationError
                                  ELSE RecordNotFoundError), {})
             /\ UNCHANGED <<projects, tasks, hist, nextProjectId, nextTaskId>>

\* A deleteProject that goes to the delete statement without the existence
\* check.
deleteProjectUnchecked(r) ==
  /\ Accepting(r)
  /\ served' = served + 1
  /\ UNCHANGED elsewhere
  /\ \E pid \in ProjectIdParams :
       LET cur == NewReq("deleteProject", pid, "", EmptyBody, "delete")
       IN /\ req' = ReqAfter(r,
                 IF isNaN(Number(pid))
                 THEN Respond(cur, 400, InvalidProjectId, NoData)
                 ELSE cur, {})
          /\ UNCHANGED <<projects, tasks, hist, nextProjectId, nextTaskId>>

\* DELETE /projects/:id, up to the existence check of Project.deleteProject.
deleteProject(r) ==
  /\ Accepting(r)
  /\ served' = served + 1
  /\ UNCHANGED elsewhere
  /\ \E pid \in ProjectIdParams :
       LET cur == NewReq("deleteProject", pid, "", EmptyBody, "delete")
       IN /\ req' = ReqAfter(r,
                 IF isNaN(Number(pid))
                 THEN Respond(cur, 400, InvalidProjectId, NoData)
                 ELSE IF ~ProjectExists(Number(pid))
                 THEN Respond(cur, 404, ProjectNotFound, NoData)
                 ELSE cur, {})
          /\ UNCHANGED <<projects, tasks, hist, nextProjectId, nextTaskId>>

\* prisma.project.delete of Project.deleteProject and the response.
deleteProjectWrite(r) ==
  /\ UNCHANGED <<served, elsewhere>>
  /\ req[r].op = "deleteProject"
  /\ req[r].pc = "delete"
  /\ LET id == Number(req[r].pid)
         T2 == CascadeDelete(tasks, id)
     IN IF id \in DOMAIN projects
        THEN /\ projects' = Without(projects, {id})
             /\ tasks' = T2
             /\ hist' = Without(hist, DOMAIN hist \ DOMAIN T2)
             /\ req' = ReqAfter(r, Respond(req[r], 200, "Project deleted successfully", NoData),
                                DOMAIN tasks \ DOMAIN T2)
             /\ UNCHANGED <<nextProjectId, nextTaskId>>
        ELSE /\ req' = ReqAfter(r, Fail(req[r], "Failed to delete project",
                                  RecordNotFoundError), {})
             /\ UNCHANGED <<projects, tasks, hist, nextProjectId, nextTaskId>>

\* --------------------------------------------------------- task handlers
\* A createTask that goes to the insert without looking the project up.
createTaskUnchecked(r) ==
  /\ Accepting(r)
  /\ served' = served + 1
  /\ UNCHANGED elsewhere
  /\ \E pid \in ProjectIdParams, body \in CreateTaskBodies :
       LET cur == NewReq("createTask", pid, "", body, "insert")
       IN /\ req' = ReqAfter(r,
                 IF isNaN(Number(pid))
                 THEN Respond(cur, 400, InvalidProjectId, NoData)
                 ELSE IF Falsy(body.title) \/ Falsy(body.description) \/ Falsy(body.dueDate)
                 THEN Respond(cur, 400, "Title, description, and due date are required", NoData)
                 ELSE cur, {})
          /\ UNCHANGED <<projects, tasks, hist, nextProjectId, nextTaskId>>

\* GET /projects/:projectId/tasks, up to the project lookup of
\* Task.getTasksByProjectId.
getAllTasks(r) ==
  /\ Accepting(r)
  /\ served' = served + 1
  /\ UNCHANGED elsewhere
  /\ \E pid \in ProjectIdParams :
       LET cur == NewReq("getAllTasks", pid, "", EmptyBody, "findMany")
       IN /\ req' = ReqAfter(r,
                 IF isNaN(Number(pid))
                 THEN Respond(cur, 400, InvalidProjectId, NoData)
                 ELSE IF ~ProjectExists(Number(pid))
                 THEN Respond(cur, 404, ProjectNotFound, NoData)
                 ELSE cur, {})
          /\ UNCHANGED <<projects, tasks, hist, nextProjectId, nextTaskId>>

\* prisma.task.findMany of Task.getTasksByProjectId and the response.
getAllTasksFindMany(r) ==
  /\ UNCHANGED <<served, elsewhere>>
  /\ req[r].op = "getAllTasks"
  /\ req[r].pc = "findMany"
  /\ \E taskList \in NewestFirst(tasks, Number(req[r].pid)) :
       req' = ReqAfter(r, Respond(req[r], 200, "", TaskListData(taskList)), {})
  /\ UNCHANGED <<projects, tasks, hist, nextProjectId, nextTaskId>>

\* A createTask that looks the project up before it looks at the body.
createTaskLookupFirst(r) ==
  /\ Accepting(r)
  /\ served' = served + 1
  /\ UNCHANGED elsewhere
  /\ \E pid \in ProjectIdParams, body \in CreateTaskBodies :
       LET cur == NewReq("createTask", pid, "", body, "insert")
       IN /\ req' = ReqAfter(r,
                 IF isNaN(Number(pid))
                 THEN Respond(cur, 400, InvalidProjectId, NoData)
                 ELSE IF ~ProjectExists(Number(pid))
                 THEN Respond(cur, 404, ProjectNotFound, NoData)
                 ELSE IF Falsy(body.title) \/ Falsy(body.description) \/ Falsy(body.dueDate)
                 THEN Respond(cur, 400, "Title, description, and due date are required", NoData)
                 ELSE cur, {})
          /\ UNCHANGED <<projects, tasks, hist, nextProjectId, nextTaskId>>

\* POST /projects/:projectId/tasks, up to the project lookup of
\* Task.createTask.
createTask(r) ==
  /\ Accepting(r)
  /\ served' = served + 1
  /\ UNCHANGED elsewhere
  /\ \E pid \in ProjectIdParams, body \in CreateTaskBodies :
       LET cur == NewReq("createTask", pid, "", body, "insert")
       IN /\ req' = ReqAfter(r,
                 IF isNaN(Number(pid))
                 THEN Respond(cur, 400, InvalidProjectId, NoData)
                 ELSE IF Falsy(body.title) \/ Falsy(body.description) \/ Falsy(body.dueDate)
                 THEN Respond(cur, 400, "Title, description, and due date are required", NoData)
                 ELSE IF ~ProjectExists(Number(pid))
                 THEN Respond(cur, 404, ProjectNotFound, NoData)
                 ELSE cur, {})
          /\ req'[r].pc = "insert" => nextTaskId + InsertsInFlight(r) <= MaxTasks
          /\ UNCHANGED <<projects, tasks, hist, nextProjectId, nextTaskId>>

\* data: { ...req.body, dueDate }: the isCompleted and the projectId of the
\* body go to the create statement.
createTaskInsertSpread(r) ==
  /\ UNCHANGED <<served, elsewhere>>
  /\ req[r].op = "createTask"
  /\ req[r].pc = "insert"
  /\ LET b == req[r].body
         projectId == IF b.projectId = Undefined THEN Number(req[r].pid)
                      ELSE Number(b.projectId)
         d == [title |-> b.title, description |-> b.description,
               dueDate |-> NewDate(b.dueDate),
               isCompleted |-> IF b.isCompleted = Undefined THEN JsFalse
                               ELSE b.isCompleted]
         id == nextTaskId
         T2 == tasks @@ (id :> StoredTask(d, projectId, nextTaskId))
     IN IF ValidTaskCreate(d) /\ ForeignKeyHolds(projects, projectId)
        THEN /\ nextTaskId <= MaxTasks
             /\ tasks' = T2
             /\ hist' = hist @@ (id :> OtherWrite)
             /\ nextTaskId' = nextTaskId + 1
             /\ req' = ReqAfter(r, Respond(req[r], 201, "Task created successfully",
                                           TaskData(T2, id)), {})
             /\ UNCHANGED <<projects, nextProjectId>>
        ELSE /\ req' = ReqAfter(r, Fail(req[r], "Failed to create task",
                                  IF ValidTaskCreate(d) THEN ForeignKeyError
                                  ELSE ValidationError), {})
             /\ UNCHANGED <<projects, tasks, hist, nextProjectId, nextTaskId>>

\* prisma.task.create of Task.createTask and the response.
createTaskInsert(r) ==
  /\ UNCHANGED <<served, elsewhere>>
  /\ req[r].op = "createTask"
  /\ req[r].pc = "insert"
  /\ LET projectId == Number(req[r].pid)
         b == req[r].body
         d == [title |-> b.title, description |-> b.description,
               dueDate |-> NewDate(b.dueDate), isCompleted |-> JsFalse]
         id == nextTaskId
         T2 == tasks @@ (id :> StoredTask(d, projectId, nextTaskId))
     IN IF ValidTaskCreate(d) /\ ForeignKeyHolds(projects, projectId)
        THEN /\ nextTaskId <= MaxTasks
             /\ tasks' = T2
             /\ hist' = hist @@ (id :> OtherWrite)
             /\ nextTaskId' = nextTaskId + 1
             /\ req' = ReqAfter(r, Respond(req[r], 201, "Task created successfully",
                                           TaskData(T2, id)), {})
             /\ UNCHANGED <<projects, nextProjectId>>
        ELSE /\ req' = ReqAfter(r, Fail(req[r], "Failed to create task",
                                  IF ValidTaskCreate(d) THEN ForeignKeyError
                                  ELSE ValidationError), {})
             /\ UNCHANGED <<projects, tasks, hist, nextProjectId, nextTaskId>>

\* Variants of steps 2 and 3 of a task mutation: what a missing task and a
\* task of another project are answered with ("" to go on to the write).
FindTaskVariant(r, op, missing, mismatch) ==
  /\ UNCHANGED <<served, elsewhere>>
  /\ req[r].op = op
  /\ req[r].pc = "findTask"
  /\ LET projectId == Number(req[r].pid)
         existingTask == TaskFindUnique(Number(req[r].tid))
         write == [req[r] EXCEPT !.pc = "write", !.clean = TRUE,
                                 !.existingTask = existingTask]
         answer(m) == IF m = "" THEN write
                      ELSE IF m = TaskNotInProject
                      THEN Respond(req[r], 403, m, NoData)
                      ELSE Respond(req[r], 404, m, NoData)
     IN req' = ReqAfter(r,
                 IF ~existingTask.found THEN answer(missing)
                 ELSE IF existingTask.projectId # projectId THEN answer(mismatch)
                 ELSE write, {})
  /\ UNCHANGED <<projects, tasks, hist, nextProjectId, nextTaskId>>

\* existingTask?.projectId !== projectId: a missing task fails the
\* relationship check.
updateTaskFindTaskMerged(r) ==
  FindTaskVariant(r, "updateTask", TaskNotInProject, TaskNotInProject)

\* findFirst({ where: { id, projectId } }): a task of another project is
\* not found.
toggleTaskCompletionFindTaskScoped(r) ==
  FindTaskVariant(r, "toggleTaskCompletion", TaskNotFound, TaskNotFound)

\* Step 3 left out: a task of another project is deleted.
deleteTaskFindTaskUnrelated(r) ==
  FindTaskVariant(r, "deleteTask", TaskNotFound, "")

\* PATCH /projects/:projectId/tasks/:taskId, up to step 1 of Task.updateTask
\* (the id format checks of the controller, then the project lookup).
updateTask(r) ==
  /\ Accepting(r)
  /\ served' = served + 1
  /\ UNCHANGED elsewhere
  /\ \E pid \in ProjectIdParams, tid \in TaskIdParams, body \in UpdateTaskBodies :
       LET cur == NewReq("updateTask", pid, tid, body, "findTask")
       IN /\ req' = ReqAfter(r,
                 IF isNaN(Number(pid))
                 THEN Respond(cur, 400, InvalidProjectId, NoData)
                 ELSE IF isNaN(Number(tid))
                 THEN Respond(cur, 400, InvalidTaskId, NoData)
                 ELSE IF ~ProjectExists(Number(pid))
                 THEN Respond(cur, 404, ProjectNotFound, NoData)
                 ELSE cur, {})
          /\ UNCHANGED <<projects, tasks, hist, nextProjectId, nextTaskId>>

\* Steps 2 and 3 of Task.updateTask: the task lookup and the
\* comparison of its projectId with the path's.
updateTaskFindTask(r) ==
  /\ UNCHANGED <<served, elsewhere>>
  /\ req[r].op = "updateTask"
  /\ req[r].pc = "findTask"
  /\ LET projectId == Number(req[r].pid)
         taskId == Number(req[r].tid)
         existingTask == TaskFindUnique(taskId)
     IN req' = ReqAfter(r,
                 IF ~existingTask.found
                 THEN Respond(req[r], 404, TaskNotFound, NoData)
                 ELSE IF existingTask.projectId # projectId
                 THEN Respond(req[r], 403, TaskNotInProject, NoData)
                 ELSE [req[r] EXCEPT !.pc = "write", !.clean = TRUE,
                                     !.existingTask = existingTask], {})
  /\ UNCHANGED <<projects, tasks, hist, nextProjectId, nextTaskId>>

\* Variants of the update statement: the fields of the body that are truthy
\* (ifTruthy) or not undefined (otherwise) are written, and with reassign the
\* projectId of the body too.
UpdateTaskWriteVariant(r, ifTruthy, reassign) ==
  /\ UNCHANGED <<served, elsewhere>>
  /\ req[r].op = "updateTask"
  /\ req[r].pc = "write"
  /\ LET taskId == Number(req[r].tid)
         b == req[r].body
         date == NewDate(b.dueDate)
         given(v) == IF ifTruthy THEN ~Falsy(v) ELSE v # Undefined
         T2 == [tasks EXCEPT
                  ![taskId].title = IF given(b.title) THEN b.title ELSE @,
                  ![taskId].description = IF given(b.description) THEN b.description ELSE @,
                  ![taskId].dueDate = IF given(b.dueDate) THEN date ELSE @,
                  ![taskId].isCompleted =
                      IF given(b.isCompleted) THEN Boolean(b.isCompleted) ELSE @,
                  ![taskId].projectId =
                      IF reassign /\ b.projectId # Undefined THEN Number(b.projectId) ELSE @]
     IN IF /\ taskId \in DOMAIN tasks
           /\ ~given(b.dueDate) \/ date # InvalidDate
           /\ T2[taskId].projectId \in DOMAIN projects
        THEN /\ tasks' = T2
             /\ hist' = [hist EXCEPT ![taskId] = OtherWrite]
             /\ req' = ReqAfter(r, Respond(req[r], 200, "Task updated successfully",
                                           TaskData(T2, taskId)), {taskId})
             /\ UNCHANGED <<projects, nextProjectId, nextTaskId>>
        ELSE /\ req' = ReqAfter(r, Fail(req[r], "Failed to update task",
                                  IF taskId \in DOMAIN tasks THEN ValidationError
                                  ELSE RecordNotFoundError), {})
             /\ UNCHANGED <<projects, tasks, hist, nextProjectId, nextTaskId>>

\* data: { ...req.body }: every field of the body goes to the update.
updateTaskWriteSpread(r) ==
  UpdateTaskWriteVariant(r, FALSE, TRUE)

\* if (updateData.title) ...: a field is written when it is truthy.
updateTaskWriteTruthy(r) ==
  UpdateTaskWriteVariant(r, TRUE, FALSE)

\* prisma.task.update of Task.updateTask and the response: the fields of
\* the body that are not undefined are written.
updateTaskWrite(r) ==
  /\ UNCHANGED <<served, elsewhere>>
  /\ req[r].op = "updateTask"
  /\ req[r].pc = "write"
  /\ LET taskId == Number(req[r].tid)
         b == req[r].body
         date == NewDate(b.dueDate)
         T2 == [tasks EXCEPT
                  ![taskId].title = IF b.title # Undefined THEN b.title ELSE @,
                  ![taskId].description =
                      IF b.description # Undefined THEN b.description ELSE @,
                  ![taskId].dueDate = IF b.dueDate # Undefined THEN date ELSE @,
                  ![taskId].isCompleted =
                      IF b.isCompleted # Undefined THEN Boolean(b.isCompleted) ELSE @]
     IN IF taskId \in DOMAIN tasks /\ (b.dueDate = Undefined \/ date # InvalidDate)
        THEN /\ tasks' = T2
             /\ hist' = [hist EXCEPT ![taskId] = OtherWrite]
             /\ req' = ReqAfter(r, Respond(req[r], 200, "Task updated successfully",
                                           TaskData(T2, taskId)), {taskId})
             /\ UNCHANGED <<projects, nextProjectId, nextTaskId>>
        ELSE /\ req' = ReqAfter(r, Fail(req[r], "Failed to update task",
                                  IF taskId \in DOMAIN tasks THEN ValidationError
                                  ELSE RecordNotFoundError), {})
             /\ UNCHANGED <<projects, tasks, hist, nextProjectId, nextTaskId>>

\* PATCH /projects/:projectId/tasks/:taskId/complete, up to step 1 of Task.toggleTaskCompletion
\* (the id format checks of the controller, then the project lookup).
toggleTaskCompletion(r) ==
  /\ Accepting(r)
  /\ served' = served + 1
  /\ UNCHANGED elsewhere
  /\ \E pid \in ProjectIdParams, tid \in TaskIdParams, body \in {EmptyBody} :
       LET cur == NewReq("toggleTaskCompletion", pid, tid, body, "findTask")
       IN /\ req' = ReqAfter(r,
                 IF isNaN(Number(pid))
                 THEN Respond(cur, 400, InvalidProjectId, NoData)
                 ELSE IF isNaN(Number(tid))
                 THEN Respond(cur, 400, InvalidTaskId, NoData)
                 ELSE IF ~ProjectExists(Number(pid))
                 THEN Respond(cur, 404, ProjectNotFound, NoData)
                 ELSE cur, {})
          /\ UNCHANGED <<projects, tasks, hist, nextProjectId, nextTaskId>>

\* Steps 2 and 3 of Task.toggleTaskCompletion: the task lookup and the
\* comparison of its projectId with the path's.
toggleTaskCompletionFindTask(r) ==
  /\ UNCHANGED <<served, elsewhere>>
  /\ req[r].op = "toggleTaskCompletion"
  /\ req[r].pc = "findTask"
  /\ LET projectId == Number(req[r].pid)
         taskId == Number(req[r].tid)
         existingTask == TaskFindUnique(taskId)
     IN req' = ReqAfter(r,
                 IF ~existingTask.found
                 THEN Respond(req[r], 404, TaskNotFound, NoData)
                 ELSE IF existingTask.projectId # projectId
                 THEN Respond(req[r], 403, TaskNotInProject, NoData)
                 ELSE [req[r] EXCEPT !.pc = "write", !.clean = TRUE,
                                     !.existingTask = existingTask], {})
  /\ UNCHANGED <<projects, tasks, hist, nextProjectId, nextTaskId>>

\* A toggle written with updateMany, which updates no row and raises no
\* error when the task is gone.
toggleTaskCompletionWriteMany(r) ==
  /\ UNCHANGED <<served, elsewhere>>
  /\ req[r].op = "toggleTaskCompletion"
  /\ req[r].pc = "write"
  /\ LET taskId == Number(req[r].tid)
         value == Negated(req[r].existingTask)
         T2 == IF taskId \in DOMAIN tasks
               THEN [tasks EXCEPT ![taskId].isCompleted = value]
               ELSE tasks
     IN /\ tasks' = T2
        /\ hist' = [t \in DOMAIN hist |-> IF t = taskId THEN OtherWrite ELSE hist[t]]
        /\ req' = ReqAfter(r, Respond(req[r], 200, "Task marked as pending", NoData),
                           {taskId})
        /\ UNCHANGED <<projects, nextProjectId, nextTaskId>>

\* prisma.task.update of Task.toggleTaskCompletion and the response: the
\* negation of the isCompleted read in step 2 is written.
toggleTaskCompletionWrite(r) ==
  /\ UNCHANGED <<served, elsewhere>>
  /\ req[r].op = "toggleTaskCompletion"
  /\ req[r].pc = "write"
  /\ LET taskId == Number(req[r].tid)
         value == Negated(req[r].existingTask)
         T2 == [tasks EXCEPT ![taskId].isCompleted = value]
     IN IF taskId \in DOMAIN tasks
        THEN /\ tasks' = T2
             /\ hist' = [hist EXCEPT ![taskId] =
                           IF req[r].clean
                           THEN [kind |-> "toggle",
                                 orig |-> req[r].existingTask.isCompleted,
                                 resp |-> value,
                                 twice |-> hist[taskId].kind = "toggle"]
                           ELSE OtherWrite]
             /\ req' = ReqAfter(r, Respond(req[r], 200,
                                  IF value THEN "Task marked as completed"
                                           ELSE "Task marked as pending",
                                  TaskData(T2, taskId)), {taskId})
             /\ UNCHANGED <<projects, nextProjectId, nextTaskId>>
        ELSE /\ req' = ReqAfter(r, Fail(req[r], "Failed to toggle task completion",
                                  RecordNotFoundError), {})
             /\ UNCHANGED <<projects, tasks, hist, nextProjectId, nextTaskId>>

\* A deleteTask that looks the project up before it checks the format of
\* the task id.
deleteTaskLookupFirst(r) ==
  /\ Accepting(r)
  /\ served' = served + 1
  /\ UNCHANGED elsewhere
  /\ \E pid \in ProjectIdParams, tid \in TaskIdParams, body \in {EmptyBody} :
       LET cur == NewReq("deleteTask", pid, tid, body, "findTask")
       IN /\ req' = ReqAfter(r,
                 IF isNaN(Number(pid))
                 THEN Respond(cur, 400, InvalidProjectId, NoData)
                 ELSE IF ~ProjectExists(Number(pid))
                 THEN Respond(cur, 404, ProjectNotFound, NoData)
                 ELSE IF isNaN(Number(tid))
                 THEN Respond(cur, 400, InvalidTaskId, NoData)
                 ELSE cur, {})
          /\ UNCHANGED <<projects, tasks, hist, nextProjectId, nextTaskId>>

\* DELETE /projects/:projectId/tasks/:taskId, up to step 1 of Task.deleteTask
\* (the id format checks of the controller, then the project lookup).
deleteTask(r) ==
  /\ Accepting(r)
  /\ served' = served + 1
  /\ UNCHANGED elsewhere
  /\ \E pid \in ProjectIdParams, tid \in TaskIdParams, body \in {EmptyBody} :
       LET cur == NewReq("deleteTask", pid, tid, body, "findTask")
       IN /\ req' = ReqAfter(r,
                 IF isNaN(Number(pid))
                 THEN Respond(cur, 400, InvalidProjectId, NoData)
                 ELSE IF isNaN(Number(tid))
                 THEN Respond(cur, 400, InvalidTaskId, NoData)
                 ELSE IF ~ProjectExists(Number(pid))
                 THEN Respond(cur, 404, ProjectNotFound, NoData)
                 ELSE cur, {})
          /\ UNCHANGED <<projects, tasks, hist, nextProjectId, nextTaskId>>

\* Steps 2 and 3 of Task.deleteTask: the task lookup and the
\* comparison of its projectId with the path's.
deleteTaskFindTask(r) ==
  /\ UNCHANGED <<served, elsewhere>>
  /\ req[r].op = "deleteTask"
  /\ req[r].pc = "findTask"
  /\ LET projectId == Number(req[r].pid)
         taskId == Number(req[r].tid)
         existingTask == TaskFindUnique(taskId)
     IN req' = ReqAfter(r,
                 IF ~existingTask.found
                 THEN Respond(req[r], 404, TaskNotFound, NoData)
                 ELSE IF existingTask.projectId # projectId
                 THEN Respond(req[r], 403, TaskNotInProject, NoData)
                 ELSE [req[r] EXCEPT !.pc = "write", !.clean = TRUE,
                                     !.existingTask = existingTask], {})
  /\ UNCHANGED <<projects, tasks, hist, nextProjectId, nextTaskId>>

\* deleteMany({ where: { projectId } }): the delete takes every task of
\* the project.
deleteTaskWriteMany(r) ==
  /\ UNCHANGED <<served, elsewhere>>
  /\ req[r].op = "deleteTask"
  /\ req[r].pc = "write"
  /\ LET gone == TaskIdsOf(tasks, Number(req[r].pid))
     IN /\ tasks' = Without(tasks, gone)
        /\ hist' = Without(hist, gone)
        /\ req' = ReqAfter(r, Respond(req[r], 200, "Task deleted successfully", NoData),
                           gone)
        /\ UNCHANGED <<projects, nextProjectId, nextTaskId>>

\* prisma.task.delete of Task.deleteTask and the response.
deleteTaskWrite(r) ==
  /\ UNCHANGED <<served, elsewhere>>
  /\ req[r].op = "deleteTask"
  /\ req[r].pc = "write"
  /\ LET taskId == Number(req[r].tid)
     IN IF taskId \in DOMAIN tasks
        THEN /\ tasks' = Without(tasks, {taskId})
             /\ hist' = Without(hist, {taskId})
             /\ req' = ReqAfter(r, Respond(req[r], 200, "Task deleted successfully", NoData),
                                {taskId})
             /\ UNCHANGED <<projects, nextProjectId, nextTaskId>>
        ELSE /\ req' = ReqAfter(r, Fail(req[r], "Failed to delete task",
                                  RecordNotFoundError), {})
             /\ UNCHANGED <<projects, tasks, hist, nextProjectId, nextTaskId>>

\* ---------------------------------------------------------- specification
Next ==
  \/ \E r \in Slots : notFound(r)
  \/ \E r \in Slots : insertProject(r)
  \/ \E r \in Slots : updateProject(r)
  \/ \E r \in Slots : updateProjectWrite(r)
  \/ \E r \in Slots : deleteProject(r)
  \/ \E r \in Slots : deleteProjectWrite(r)
  \/ \E r \in Slots : getAllTasks(r)
  \/ \E r \in Slots : getAllTasksFindMany(r)
  \/ \E r \in Slots : createTask(r)
  \/ \E r \in Slots : createTaskInsert(r)
  \/ \E r \in Slots : updateTask(r)
  \/ \E r \in Slots : updateTaskFindTask(r)
  \/ \E r \in Slots : updateTaskWrite(r)
  \/ \E r \in Slots : toggleTaskCompletion(r)
  \/ \E r \in Slots : toggleTaskCompletionFindTask(r)
  \/ \E r \in Slots : toggleTaskCompletionWrite(r)
  \/ \E r \in Slots : deleteTask(r)
  \/ \E r \in Slots : deleteTaskFindTask(r)
  \/ \E r \in Slots : deleteTaskWrite(r)

Spec == Init /\ [][Next]_vars

\* The statement a handler in flight on slot r is waiting for.
Continue(r) ==
  \/ updateProjectWrite(r)
  \/ deleteProjectWrite(r)
  \/ getAllTasksFindMany(r)
  \/ createTaskInsert(r)
  \/ updateTaskFindTask(r)
  \/ updateTaskWrite(r)
  \/ toggleTaskCompletionFindTask(r)
  \/ toggleTaskCompletionWrite(r)
  \/ deleteTaskFindTask(r)
  \/ deleteTaskWrite(r)

\* Every awaited Prisma call settles: the database answers each statement.
FairSpec == Spec /\ \A r \in Slots : WF_vars(Continue(r))

TypeOK ==
  /\ DOMAIN projects \subseteq 1..MaxProjects
  /\ DOMAIN tasks \subseteq 1..MaxTasks
  /\ DOMAIN hist = DOMAIN tasks
  /\ nextProjectId \in 1..(MaxProjects + 1)
  /\ nextTaskId \in 1..(MaxTasks + 1)
  /\ served \in 0..MaxRequests
  /\ \A r \in Slots : req[r].status \in {0, 200, 201, 400, 403, 404, 500}

\* ------------------------------------------------------------ vocabulary
TaskMutations == {"updateTask", "toggleTaskCompletion", "deleteTask"}

\* This step is slot r accepting a request (and running it up to its first
\* database statement).
Arrives(r) ==
  /\ served' = served + 1
  /\ req[r].pc \in {"idle", "done"}
  /\ req'[r].pc # "idle"
  /\ (req'[r] # req[r] \/ req' = req)

\* This step is the next database statement of the request in flight on r.
Steps(r) ==
  /\ served' = served
  /\ req[r].pc \notin {"idle", "done"}
  /\ req'[r].pc # req[r].pc

\* Both route parameters of q are numbers.
NumericIds(q) == ~isNaN(Number(q.pid)) /\ ~isNaN(Number(q.tid))

Answered(q, status, message) ==
  q.pc = "done" /\ q.status = status /\ q.message = message

DatabaseUnchanged == UNCHANGED <<projects, tasks>>

\* ------------------------------------------------------------------ C1
\* C1: a task mutation call (update, toggle, delete) whose ids are numbers
\* and whose project is not stored is answered 404 'Project not found' by
\* the project lookup itself: the handler ends there, before the task
\* lookup, whether or not the task exists, and nothing is written.
C1_ProjectNotFoundFirst ==
  [][\A r \in Slots :
       (/\ Arrives(r)
        /\ req'[r].op \in TaskMutations
        /\ NumericIds(req'[r])
        /\ Number(req'[r].pid) \notin DOMAIN projects)
       => /\ Answered(req'[r], 404, ProjectNotFound)
          /\ DatabaseUnchanged]_vars

\* A mutation was answered 'Project not found' although its task is stored.
C1_Witness ==
  \E r \in Slots :
    /\ req[r].op \in TaskMutations
    /\ Answered(req[r], 404, ProjectNotFound)
    /\ Number(req[r].pid) \notin DOMAIN projects
    /\ Number(req[r].tid) \in DOMAIN tasks

\* ------------------------------------------------------------------ C2
\* C2: a task mutation call that found its project and then finds no task
\* with the task id is answered 404 'Task not found'.
C2_TaskNotFound ==
  [][\A r \in Slots :
       (/\ Steps(r)
        /\ req[r].op \in TaskMutations
        /\ req[r].pc = "findTask"
        /\ Number(req[r].tid) \notin DOMAIN tasks)
       => /\ Answered(req'[r], 404, TaskNotFound)
          /\ DatabaseUnchanged]_vars

\* A mutation of a stored project was answered 'Task not found'.
C2_Witness ==
  \E r \in Slots :
    /\ req[r].op \in TaskMutations
    /\ Answered(req[r], 404, TaskNotFound)
    /\ Number(req[r].pid) \in DOMAIN projects
    /\ Number(req[r].tid) \notin DOMAIN tasks

\* ------------------------------------------------------------------ C3
\* C3: a task mutation call that found its project and finds the task
\* stored under another project is answered 403 'Task does not belong to
\* this project', not 404.
C3_TaskNotInProject ==
  [][\A r \in Slots :
       (/\ Steps(r)
        /\ req[r].op \in TaskMutations
        /\ req[r].pc = "findTask"
        /\ Number(req[r].tid) \in DOMAIN tasks
        /\ tasks[Number(req[r].tid)].projectId # Number(req[r].pid))
       => /\ Answered(req'[r], 403, TaskNotInProject)
          /\ DatabaseUnchanged]_vars

\* A mutation was answered 403 while its project and its task are stored.
C3_Witness ==
  \E r \in Slots :
    /\ req[r].op \in TaskMutations
    /\ Answered(req[r], 403, TaskNotInProject)
    /\ Number(req[r].pid) \in DOMAIN projects
    /\ Number(req[r].tid) \in DOMAIN tasks
    /\ tasks[Number(req[r].tid)].projectId # Number(req[r].pid)

\* ------------------------------------------------------------------ C4
\* C4: a step of an update, toggle or delete call changes the stored
\* projects or tasks only if it is the call's mutating statement, reached
\* with all three checks passed (project found, task found, the task's
\* projectId equal to the path's), and the call is then answered 200; a
\* call that ends on a failed check has changed nothing.
C4_MutationOnlyAfterChecks ==
  [][\A r \in Slots :
       /\ (Arrives(r) /\ req'[r].op \in TaskMutations) => DatabaseUnchanged
       /\ (Steps(r) /\ req[r].op \in TaskMutations /\ ~DatabaseUnchanged)
          => /\ req[r].pc = "write"
             /\ req[r].project
             /\ req[r].existingTask.found
             /\ req[r].existingTask.projectId = Number(req[r].pid)
             /\ req'[r].status = 200]_vars

\* An update went through and wrote the title it was sent.
C4_Witness ==
  \E r \in Slots :
    /\ req[r].op = "updateTask"
    /\ Answered(req[r], 200, "Task updated successfully")
    /\ req[r].body.title = "t2"
    /\ tasks[Number(req[r].tid)].title = "t2"

\* ------------------------------------------------------------------ C5
\* C5: the statement of a successful deleteProject(P) removes P and every
\* task whose projectId is P, and leaves every other project and every
\* task of another project stored and unchanged.
C5_CascadeDelete ==
  [][\A r \in Slots :
       (/\ Steps(r)
        /\ req[r].op = "deleteProject"
        /\ req'[r].status = 200)
       => LET P == Number(req[r].pid)
          IN /\ projects' = Without(projects, {P})
             /\ P \in DOMAIN projects
             /\ DOMAIN tasks' = {t \in DOMAIN tasks : tasks[t].projectId # P}
             /\ \A t \in DOMAIN tasks' : tasks'[t] = tasks[t]]_vars

\* A project was deleted, a task went with it and a task of another
\* project is still stored.
C5_Witness ==
  \E r \in Slots :
    /\ req[r].op = "deleteProject"
    /\ Answered(req[r], 200, "Project deleted successfully")
    /\ projects # <<>>
    /\ Cardinality(DOMAIN tasks) = 1
    /\ nextTaskId = 3
    /\ served = 3

\* ------------------------------------------------------------------ C6
\* C6: in every reachable state, whatever requests ran and however their
\* statements interleaved, the projectId of every stored task is the id of
\* a stored project.
C6_NoOrphanTask ==
  \A t \in DOMAIN tasks : tasks[t].projectId \in DOMAIN projects

\* A createTask passed its project check, the project was deleted before
\* the insert ran, and the insert was refused by the foreign key.
C6_Witness ==
  \E r \in Slots :
    /\ req[r].op = "createTask"
    /\ req[r].pc = "done"
    /\ req[r].status = 500
    /\ req[r].error = ForeignKeyError
    /\ Number(req[r].pid) \notin DOMAIN projects

\* ------------------------------------------------------------------ C7
\* C7: when a toggle call writes and the last write to its task was the
\* write of an earlier toggle call, with no write to the task between the
\* read and the write of either call, the first call answered the negation
\* of the value it found, and the second answers and stores the value the
\* first one found.
C7_ToggleTwice ==
  [][\A r \in Slots :
       (/\ Steps(r)
        /\ req[r].op = "toggleTaskCompletion"
        /\ req[r].pc = "write"
        /\ req[r].clean
        /\ Number(req[r].tid) \in DOMAIN tasks
        /\ hist[Number(req[r].tid)].kind = "toggle")
       => LET t == Number(req[r].tid)
          IN /\ hist[t].resp = ~hist[t].orig
             /\ req'[r].status = 200
             /\ req'[r].data.task.isCompleted = hist[t].orig
             /\ tasks'[t].isCompleted = hist[t].orig]_vars

\* A task was toggled twice in a row and the second call has answered.
C7_Witness ==
  \E r \in Slots :
    /\ req[r].op = "toggleTaskCompletion"
    /\ req[r].pc = "done"
    /\ req[r].status = 200
    /\ Number(req[r].tid) \in DOMAIN hist
    /\ hist[Number(req[r].tid)].kind = "toggle"
    /\ hist[Number(req[r].tid)].twice
    /\ tasks[Number(req[r].tid)].isCompleted = req[r].data.task.isCompleted

\* ------------------------------------------------------------------ C8
\* C8: a project created with an initial task array is answered with
\* exactly one task per element of the array, in order, each with the new
\* project's id as projectId and with isCompleted true exactly when the
\* element sets isCompleted to true; and those are the tasks stored for it.
C8_InitialTasks ==
  \A r \in Slots :
    (/\ req[r].op = "insertProject"
     /\ req[r].pc = "done"
     /\ req[r].status = 201
     /\ req[r].body.hasTasks)
    => LET d == req[r].data
           a == req[r].body.tasks
       IN /\ Len(d.tasks) = Len(a)
          /\ \A i \in 1..Len(a) :
               /\ d.tasks[i].isCompleted = (a[i].isCompleted = JsTrue)
               /\ d.tasks[i].projectId = d.id
               /\ d.tasks[i].id \in DOMAIN tasks
               /\ TaskRow(tasks, d.tasks[i].id) = d.tasks[i]
          /\ Cardinality(TaskIdsOf(tasks, d.id)) = Len(a)
          /\ d.id \in DOMAIN projects

\* A project was created with two initial tasks, one of them set completed.
C8_Witness ==
  \E r \in Slots :
    /\ req[r].op = "insertProject"
    /\ req[r].pc = "done"
    /\ req[r].status = 201
    /\ req[r].body.tasks = <<ItemCompleted, ItemPending>>
    /\ Len(req[r].data.tasks) = 2
    /\ req[r].data.tasks[1].isCompleted
    /\ ~req[r].data.tasks[2].isCompleted

\* ------------------------------------------------------------------ C9
\* C9: a POST /projects request either stores the project with all of its
\* initial tasks and is answered 201, or stores nothing; when an element of
\* the initial task array cannot be inserted the request is answered 500
\* and no project and no task is stored.
C9_CreateProjectAtomic ==
  [][\A r \in Slots :
       (Arrives(r) /\ req'[r].op = "insertProject")
       => LET b == req'[r].body
              n == IF b.hasTasks THEN Len(b.tasks) ELSE 0
              rejected == \E i \in 1..n : ~ValidTaskCreate(CreateItem(b.tasks[i]))
          IN /\ req'[r].status \in {201, 400, 500}
             /\ req'[r].status = 201
                  => /\ DOMAIN projects' = DOMAIN projects \cup {nextProjectId}
                     /\ nextProjectId \notin DOMAIN projects
                     /\ Cardinality(TaskIdsOf(tasks', nextProjectId)) = n
                     /\ \A t \in DOMAIN tasks : t \in DOMAIN tasks' /\ tasks'[t] = tasks[t]
             /\ req'[r].status # 201 => DatabaseUnchanged
             /\ (~Falsy(b.name) /\ ~Falsy(b.description) /\ ~Falsy(b.startDate) /\ rejected)
                  => req'[r].status = 500]_vars

\* A request whose second initial task cannot be inserted was answered 500
\* and left no project behind.
C9_Witness ==
  \E r \in Slots :
    /\ req[r].op = "insertProject"
    /\ req[r].pc = "done"
    /\ req[r].status = 500
    /\ req[r].body.tasks = <<ItemPlain, ItemUntitled>>
    /\ projects = <<>>
    /\ tasks = <<>>

\* ----------------------------------------------------------------- C10
\* C10: a createTask request with a numeric project id and its required
\* fields, for a project that is not stored, is answered 404 'Project not
\* found' by the project lookup, and no task is created.
C10_CreateTaskNeedsProject ==
  [][\A r \in Slots :
       (/\ Arrives(r)
        /\ req'[r].op = "createTask"
        /\ ~isNaN(Number(req'[r].pid))
        /\ ~Falsy(req'[r].body.title)
        /\ ~Falsy(req'[r].body.description)
        /\ ~Falsy(req'[r].body.dueDate)
        /\ Number(req'[r].pid) \notin DOMAIN projects)
       => /\ Answered(req'[r], 404, ProjectNotFound)
          /\ DatabaseUnchanged
          /\ nextTaskId' = nextTaskId]_vars

\* A complete createTask request for a missing project was answered 404.
C10_Witness ==
  \E r \in Slots :
    /\ req[r].op = "createTask"
    /\ Answered(req[r], 404, ProjectNotFound)
    /\ ~Falsy(req[r].body.title)
    /\ Number(req[r].pid) \notin DOMAIN projects

\* ----------------------------------------------------------------- C11
\* C11: a createTask request without its title, description or dueDate, and
\* an insertProject request without its name, description or startDate, is
\* answered 400 and stores nothing; createTask answers so before it looks
\* the project up, so also when the project is not stored.
C11_MissingFieldIs400 ==
  [][\A r \in Slots :
       LET q == req'[r]
           b == q.body
       IN /\ (/\ Arrives(r)
              /\ q.op = "createTask"
              /\ Undefined \in {b.title, b.description, b.dueDate})
             => /\ q.pc = "done"
                /\ q.status = 400
                /\ DatabaseUnchanged
                /\ nextTaskId' = nextTaskId
          /\ (/\ Arrives(r)
              /\ q.op = "insertProject"
              /\ Undefined \in {b.name, b.description, b.startDate})
             => /\ Answered(q, 400, "Name, description, and start date are required")
                /\ DatabaseUnchanged
                /\ nextProjectId' = nextProjectId]_vars

\* A createTask request without title, for a project that is not stored,
\* was answered 400 for the missing field.
C11_Witness ==
  \E r \in Slots :
    /\ req[r].op = "createTask"
    /\ Answered(req[r], 400, "Title, description, and due date are required")
    /\ req[r].body.title = Undefined
    /\ ~isNaN(Number(req[r].pid))
    /\ Number(req[r].pid) \notin DOMAIN projects

\* ----------------------------------------------------------------- C12
\* The handler on slot r waits for an answer of the database.
InFlight(r) == req[r].pc \notin {"idle", "done"}

\* The statement the handler on slot r is about to run will be refused by
\* the database: its row is gone, its foreign key does not resolve, or a
\* value is not a date.
DatabaseRefuses(r) ==
  LET q == req[r]
  IN CASE q.pc = "insert" ->
            \/ Number(q.pid) \notin DOMAIN projects
            \/ NewDate(q.body.dueDate) = InvalidDate
       [] q.pc = "write" ->
            \/ Number(q.tid) \notin DOMAIN tasks
            \/ /\ q.op = "updateTask"
               /\ q.body.dueDate # Undefined
               /\ NewDate(q.body.dueDate) = InvalidDate
       [] q.pc = "update" ->
            \/ Number(q.pid) \notin DOMAIN projects
            \/ ~Falsy(q.body.startDate) /\ NewDate(q.body.startDate) = InvalidDate
       [] q.pc = "delete" -> Number(q.pid) \notin DOMAIN projects
       [] OTHER -> FALSE

C13_PatchAndPutUpdateTask ==
  [][\A r \in Slots :
       (/\ Arrives(r)
        /\ req'[r].line[2] = "/projects/:projectId/tasks/:taskId"
        /\ req'[r].line[1] \in {"PATCH", "PUT"})
       => req'[r].op = "updateTask"]_vars

\* ----------------------------------------------------------------- C14
\* C14: a GET of the tasks of a project that is not stored is answered 404
\* 'Project not found' by the project lookup; otherwise the request is
\* answered 200 with the stored tasks whose projectId is the path's, each
\* once and no other task, a task created later standing before a task
\* created earlier.
C14_GetAllTasks ==
  [][\A r \in Slots :
       /\ (/\ Arrives(r)
           /\ req'[r].op = "getAllTasks"
           /\ ~isNaN(Number(req'[r].pid)))
          => IF Number(req'[r].pid) \in DOMAIN projects
             THEN req'[r].pc = "findMany"
             ELSE Answered(req'[r], 404, ProjectNotFound)
       /\ (Steps(r) /\ req[r].op = "getAllTasks")
          => LET p == Number(req[r].pid)
                 l == req'[r].data.tasks
             IN /\ req'[r].status = 200
                /\ req'[r].success
                /\ {l[i].id : i \in 1..Len(l)} = {t \in DOMAIN tasks : tasks[t].projectId = p}
                /\ Len(l) = Cardinality({t \in DOMAIN tasks : tasks[t].projectId = p})
                /\ \A i \in 1..Len(l) : l[i] = TaskRow(tasks, l[i].id)
                /\ \A i, j \in 1..Len(l) : i < j => l[i].createdAt >= l[j].createdAt
                /\ DatabaseUnchanged]_vars

\* The two tasks of a project, created one after the other, were listed
\* newest first.
C14_Witness ==
  \E r \in Slots :
    /\ req[r].op = "getAllTasks"
    /\ req[r].pc = "done"
    /\ req[r].status = 200
    /\ Len(req[r].data.tasks) = 2
    /\ req[r].data.tasks[1].createdAt > req[r].data.tasks[2].createdAt

\* ----------------------------------------------------------------- C15
\* C15: an updateProject or deleteProject request for a numeric id under
\* which no project is stored is answered 404 'Project not found' and
\* changes no project and no task; and the id of a deleted project is never
\* stored again, so that a repeated delete is answered the same way.
C15_ProjectMustExist ==
  [][/\ \A r \in Slots :
          (/\ Arrives(r)
           /\ req'[r].op \in {"updateProject", "deleteProject"}
           /\ ~isNaN(Number(req'[r].pid))
           /\ Number(req'[r].pid) \notin DOMAIN projects)
          => /\ Answered(req'[r], 404, ProjectNotFound)
             /\ DatabaseUnchanged
     /\ \A id \in 1..(nextProjectId - 1) :
          id \notin DOMAIN projects => id \notin DOMAIN projects']_vars

\* A project was deleted, and the delete of its id sent after that was
\* answered 404.
C15_Witness ==
  \E r \in Slots :
    /\ req[r].op = "deleteProject"
    /\ Answered(req[r], 404, ProjectNotFound)
    /\ Number(req[r].pid) < nextProjectId
    /\ Number(req[r].pid) \notin DOMAIN projects

\* ----------------------------------------------------------------- C16
\* C16: when two toggle requests for the same task overlap, each reading
\* isCompleted before either has written, the write of the second one
\* leaves the task's isCompleted at the value it had before both.
C16_OverlappingToggles ==
  [][\A r \in Slots :
       (/\ Steps(r)
        /\ req[r].op = "toggleTaskCompletion"
        /\ req[r].pc = "write"
        /\ req[r].raced
        /\ Number(req[r].tid) \in DOMAIN tasks)
       => tasks'[Number(req[r].tid)].isCompleted = req[r].existingTask.isCompleted]_vars

\* ----------------------------------------------------------------- C17
\* C17: when an update, toggle or delete request has passed its three
\* checks and its task is gone by the time its mutating statement runs
\* (deleted by another request, or with its project), the request is
\* answered 500, not 404 and not 200, and changes nothing.
C17_TaskGoneIs500 ==
  [][\A r \in Slots :
       (/\ Steps(r)
        /\ req[r].op \in TaskMutations
        /\ req[r].pc = "write"
        /\ Number(req[r].tid) \notin DOMAIN tasks)
       => /\ req[r].existingTask.found
          /\ req[r].existingTask.projectId = Number(req[r].pid)
          /\ req'[r].pc = "done"
          /\ req'[r].status = 500
          /\ DatabaseUnchanged]_vars

\* A toggle passed its checks, the project of its task was deleted and the
\* task with it, and the toggle was answered 500.
C17_Witness ==
  \E r \in Slots :
    /\ req[r].op = "toggleTaskCompletion"
    /\ Answered(req[r], 500, "Failed to toggle task completion")
    /\ req[r].error = RecordNotFoundError
    /\ Number(req[r].pid) \notin DOMAIN projects
    /\ Number(req[r].pid) < nextProjectId

\* ----------------------------------------------------------------- C18
\* C18: no step changes the projectId of a stored task, whatever the body
\* of an update carries, and the id of a task that was removed is never
\* stored again: a task found under project P stays under P as long as it
\* is stored.
C18_ProjectIdImmutable ==
  [][/\ \A t \in DOMAIN tasks \cap DOMAIN tasks' :
          tasks'[t].projectId = tasks[t].projectId
     /\ \A t \in 1..(nextTaskId - 1) :
          t \notin DOMAIN tasks => t \notin DOMAIN tasks']_vars

\* An update whose body names project 2 went through on a task of
\* project 1, which is still a task of project 1, while project 2 is stored.
C18_Witness ==
  \E r \in Slots :
    /\ req[r].op = "updateTask"
    /\ Answered(req[r], 200, "Task updated successfully")
    /\ req[r].body.projectId = "2"
    /\ tasks[Number(req[r].tid)].projectId = 1
    /\ 2 \in DOMAIN projects
    /\ req[r].data.task.isCompleted

\* ----------------------------------------------------------------- C19
\* C19: the statement of an updateTask that went through its checks and is
\* answered 200 sets each of title, description, dueDate and isCompleted
\* that the body carries (an empty string and false included) to the value
\* sent, and leaves the task's other fields, every other task and every
\* project as they were; with an empty body the request is answered 200 and
\* the task is as it was.
C19_UpdateTaskFrame ==
  [][\A r \in Slots :
       (/\ Steps(r)
        /\ req[r].op = "updateTask"
        /\ req[r].pc = "write")
       => LET t == Number(req[r].tid)
              b == req[r].body
          IN /\ (req[r].body = EmptyBody /\ t \in DOMAIN tasks)
                => /\ req'[r].status = 200
                   /\ tasks' = tasks
             /\ req'[r].status = 200
                => /\ DOMAIN tasks' = DOMAIN tasks
                   /\ \A u \in DOMAIN tasks \ {t} : tasks'[u] = tasks[u]
                   /\ projects' = projects
                   /\ tasks'[t].title =
                        IF b.title # Undefined THEN b.title ELSE tasks[t].title
                   /\ tasks'[t].description =
                        IF b.description # Undefined THEN b.description
                        ELSE tasks[t].description
                   /\ tasks'[t].dueDate =
                        IF b.dueDate # Undefined THEN NewDate(b.dueDate)
                        ELSE tasks[t].dueDate
                   /\ tasks'[t].isCompleted =
                        IF b.isCompleted # Undefined THEN b.isCompleted = JsTrue
                        ELSE tasks[t].isCompleted
                   /\ tasks'[t].projectId = tasks[t].projectId
                   /\ tasks'[t].createdAt = tasks[t].createdAt
                   /\ req'[r].data.task = TaskRow(tasks', t)]_vars

\* An update with a title, an empty description, a due date and
\* isCompleted false went through: the task has that title and due date,
\* its description is empty and it is pending.
C19_Witness ==
  \E r \in Slots :
    /\ req[r].op = "updateTask"
    /\ Answered(req[r], 200, "Task updated successfully")
    /\ req[r].body.description = ""
    /\ req[r].body.isCompleted = JsFalse
    /\ tasks[Number(req[r].tid)].description = ""
    /\ tasks[Number(req[r].tid)].title = "t2"
    /\ tasks[Number(req[r].tid)].dueDate = NewDate("2024-01-01")
    /\ ~tasks[Number(req[r].tid)].isCompleted
    /\ nextTaskId = 2
    /\ served = 2

\* ----------------------------------------------------------------- C20
\* C20: the statement of a deleteTask that is answered 200 removes the
\* task of the path and nothing else: every project, the task's own
\* included, and every other task stay as they were.  The id is not stored
\* again, and an update, toggle or delete of it that finds its project is
\* answered 404 'Task not found'.
C20_DeleteTaskFrame ==
  [][/\ \A r \in Slots :
          /\ (/\ Steps(r)
              /\ req[r].op = "deleteTask"
              /\ req'[r].status = 200)
             => LET t == Number(req[r].tid)
                IN /\ t \in DOMAIN tasks
                   /\ tasks' = Without(tasks, {t})
                   /\ projects' = projects
                   /\ tasks[t].projectId \in DOMAIN projects'
          /\ (/\ Steps(r)
              /\ req[r].op \in TaskMutations
              /\ req[r].pc = "findTask"
              /\ Number(req[r].tid) < nextTaskId
              /\ Number(req[r].tid) \notin DOMAIN tasks)
             => Answered(req'[r], 404, TaskNotFound)
     /\ \A t \in 1..(nextTaskId - 1) :
          t \notin DOMAIN tasks => t \notin DOMAIN tasks']_vars

\* A task was deleted and the toggle of it sent after that, its project
\* still stored, was answered 'Task not found'.
C20_Witness ==
  \E r \in Slots :
    /\ req[r].op = "toggleTaskCompletion"
    /\ Answered(req[r], 404, TaskNotFound)
    /\ Number(req[r].tid) < nextTaskId
    /\ Number(req[r].tid) \notin DOMAIN tasks
    /\ Number(req[r].pid) \in DOMAIN projects

\* ----------------------------------------------------------------- C21
\* C21: an update, toggle or delete of a task whose projectId is not a number
\* is answered 400 'Invalid project ID', also when its taskId is not a number
\* either; one whose projectId is a number and whose taskId is not is
\* answered 400 'Invalid task ID'.  Both answers are given on arrival,
\* whatever the database holds, and the database is left as it was.
C21_IdFormatFirst ==
  [][\A r \in Slots :
       (Arrives(r) /\ req'[r].op \in TaskMutations) =>
         LET q == req'[r]
         IN /\ isNaN(Number(q.pid)) => Answered(q, 400, InvalidProjectId)
            /\ (~isNaN(Number(q.pid)) /\ isNaN(Number(q.tid))) =>
                 Answered(q, 400, InvalidTaskId)
            /\ ~NumericIds(q) => DatabaseUnchanged]_vars

\* A delete whose two ids are both not numbers was answered with the
\* project id's message.
C21_Witness ==
  \E r \in Slots :
    /\ req[r].op = "deleteTask"
    /\ isNaN(Number(req[r].pid))
    /\ isNaN(Number(req[r].tid))
    /\ Answered(req[r], 400, InvalidProjectId)

C23_UpdateProjectFrame ==
  [][\A r \in Slots :
       (/\ Steps(r)
        /\ req[r].op = "updateProject"
        /\ Number(req[r].pid) \in DOMAIN projects)
       => LET id == Number(req[r].pid)
              b == req[r].body
          IN /\ tasks' = tasks
             /\ DOMAIN projects' = DOMAIN projects
             /\ \A p \in DOMAIN projects \ {id} : projects'[p] = projects[p]
             /\ Falsy(b.name) => projects'[id].name = projects[id].name
             /\ Falsy(b.description) =>
                  projects'[id].description = projects[id].description
             /\ Falsy(b.startDate) => projects'[id].startDate = projects[id].startDate
             /\ req'[r].status # 200 => projects' = projects
             /\ req'[r].status = 200 =>
                  /\ ~Falsy(b.name) => projects'[id].name = b.name
                  /\ ~Falsy(b.description) => projects'[id].description = b.description
                  /\ ~Falsy(b.startDate) => projects'[id].startDate = NewDate(b.startDate)
             /\ (Falsy(b.name) /\ Falsy(b.description) /\ Falsy(b.startDate)) =>
                  /\ Answered(req'[r], 200, "Project updated successfully")
                  /\ projects' = projects]_vars

\* An update whose body has an empty name beside a description and a start
\* date was answered 200: the project has the new description and start
\* date, and still a name.
C23_Witness ==
  \E r \in Slots :
    /\ req[r].op = "updateProject"
    /\ Answered(req[r], 200, "Project updated successfully")
    /\ req[r].body.name = ""
    /\ Number(req[r].pid) \in DOMAIN projects
    /\ projects[Number(req[r].pid)].name # ""
    /\ projects[Number(req[r].pid)].description = req[r].body.description
    /\ projects[Number(req[r].pid)].startDate = NewDate(req[r].body.startDate)
    /\ \E t \in DOMAIN tasks : tasks[t].projectId = Number(req[r].pid)

\* ======================================================== browser client
\* The Redux store of the React client: the task slice and the project
\* slice, each a reducer over its own state.

\* /^\d+$/.test(s)
DigitString(s) == s \in {"0", "1", "2", "3", "4", "5"}

\* action.payload || text
OrDefault(payload, text) == IF Falsy(payload) THEN text ELSE payload

\* findIndex by id and assignment at that index: the first item of the
\* list with the id of item is replaced by it.
Replaced(list, item) ==
  LET found == {i \in 1..Len(list) : list[i].id = item.id}
  IN IF found = {} THEN list ELSE [list EXCEPT ![SetMin(found)] = item]

\* list.filter((t) => /^\d+$/.test(id) && t.id !== Number(id))
Removed(list, id) ==
  LET kept(item) == DigitString(id) /\ item.id # Number(id) IN SelectSeq(list, kept)

\* A reset that empties the collection too.
TaskResetAll(state) == TaskInitialState

\* reducers.reset of the task slice.
TaskReset(state) ==
  [state EXCEPT !.error = FALSE, !.loading = FALSE, !.insertSuccess = FALSE,
                !.updateSuccess = FALSE, !.deleteSuccess = FALSE, !.message = "",
                !.task = Null]

\* reducers.reset of the project slice.
ProjectReset(state) ==
  [state EXCEPT !.error = FALSE, !.loading = FALSE, !.insertSuccess = FALSE,
                !.updateSuccess = FALSE, !.deleteSuccess = FALSE, !.message = "",
                !.project = Null]

\* The reducer of the task slice: reducers and extraReducers by action type.
TaskSlice(state, action) ==
  LET type == action.type
      payload == action.payload
      starting == [state EXCEPT !.loading = TRUE, !.error = FALSE, !.message = ""]
      failed(text) == [state EXCEPT !.loading = FALSE, !.error = TRUE,
                                      !.message = OrDefault(payload, text)]
  IN CASE type = "tasks/reset" -> TaskReset(state)
       [] type = "tasks/insertTask/pending" -> [starting EXCEPT !.insertSuccess = FALSE]
       [] type = "tasks/insertTask/fulfilled" ->
            [state EXCEPT !.loading = FALSE, !.insertSuccess = TRUE,
                          !.tasks = <<payload>> \o @]
       [] type = "tasks/insertTask/rejected" -> failed("Error inserting task.")
       [] type = "tasks/updateTask/pending" -> [starting EXCEPT !.updateSuccess = FALSE]
       [] type = "tasks/updateTask/fulfilled" ->
            [state EXCEPT !.loading = FALSE, !.updateSuccess = TRUE,
                          !.tasks = Replaced(@, payload)]
       [] type = "tasks/updateTask/rejected" -> failed("Error updating task.")
       [] type = "tasks/deleteTask/pending" -> [starting EXCEPT !.deleteSuccess = FALSE]
       [] type = "tasks/deleteTask/fulfilled" ->
            [state EXCEPT !.loading = FALSE, !.deleteSuccess = TRUE,
                          !.tasks = Removed(@, payload.id),
                          !.message = payload.message]
       [] type = "tasks/deleteTask/rejected" -> failed("Error deleting task.")
       [] type = "tasks/getAllTasks/pending" -> starting
       [] type = "tasks/getAllTasks/fulfilled" ->
            [state EXCEPT !.loading = FALSE, !.tasks = payload]
       [] type = "tasks/getAllTasks/rejected" -> failed("Error fetching tasks.")
       [] type = "tasks/getTaskById/pending" -> starting
       [] type = "tasks/getTaskById/fulfilled" ->
            [state EXCEPT !.loading = FALSE, !.task = payload]
       [] type = "tasks/getTaskById/rejected" -> failed("Error fetching task.")
       [] type \in {"tasks/toggleTaskCompletion/pending", "tasks/updateTaskStatus/pending"} ->
            starting
       [] type \in {"tasks/toggleTaskCompletion/fulfilled",
                    "tasks/updateTaskStatus/fulfilled"} ->
            [state EXCEPT !.loading = FALSE, !.updateSuccess = TRUE,
                          !.tasks = Replaced(@, payload)]
       [] type = "tasks/toggleTaskCompletion/rejected" ->
            failed("Error toggling task completion.")
       [] type = "tasks/updateTaskStatus/rejected" ->
            failed("Error updating task status.")
       [] OTHER -> state

\* The reducer of the project slice.
ProjectSlice(state, action) ==
  LET type == action.type
      payload == action.payload
      starting == [state EXCEPT !.loading = TRUE, !.error = FALSE, !.message = ""]
      failed(text) == [state EXCEPT !.loading = FALSE, !.error = TRUE,
                                      !.message = OrDefault(payload, text)]
  IN CASE type = "projects/reset" -> ProjectReset(state)
       [] type = "projects/insertProject/pending" -> [starting EXCEPT !.insertSuccess = FALSE]
       [] type = "projects/insertProject/fulfilled" ->
            [state EXCEPT !.loading = FALSE, !.insertSuccess = TRUE,
                          !.projects = @ \o <<payload>>]
       [] type = "projects/insertProject/rejected" -> failed("Error inserting project.")
       [] type = "projects/updateProject/pending" -> [starting EXCEPT !.updateSuccess = FALSE]
       [] type = "projects/updateProject/fulfilled" ->
            [state EXCEPT !.loading = FALSE, !.updateSuccess = TRUE,
                          !.projects = Replaced(@, payload)]
       [] type = "projects/updateProject/rejected" -> failed("Error updating project.")
       [] type = "projects/deleteProject/pending" -> [starting EXCEPT !.deleteSuccess = FALSE]
       [] type = "projects/deleteProject/fulfilled" ->
            [state EXCEPT !.loading = FALSE, !.deleteSuccess = TRUE,
                          !.projects = Removed(@, payload.id),
                          !.message = payload.message]
       [] type = "projects/deleteProject/rejected" -> failed("Error deleting project.")
       [] type = "projects/getAllProjects/pending" -> starting
       [] type = "projects/getAllProjects/fulfilled" ->
            [state EXCEPT !.loading = FALSE, !.projects = payload,
                          !.pagination = [page |-> 1, limit |-> 10,
                                          total |-> Len(payload), pages |-> 1]]
       [] type = "projects/getAllProjects/rejected" -> failed("Error fetching projects.")
       [] type = "projects/getProjectById/pending" -> starting
       [] type = "projects/getProjectById/fulfilled" ->
            [state EXCEPT !.loading = FALSE, !.project = payload]
       [] type = "projects/getProjectById/rejected" -> failed("Error fetching project.")
       [] OTHER -> state

\* store.dispatch(action): both slice reducers are handed the action.
Dispatch(action) ==
  /\ TaskReducer' = TaskSlice(TaskReducer, action)
  /\ ProjectReducer' = ProjectSlice(ProjectReducer, action)
  /\ dispatched' = [type |-> action.type, payload |-> action.payload,
                    n |-> dispatched.n + 1]

\* ------------------------------------------------ the store on its own
\* Actions dispatched to one store in one run.
MaxDispatches == 3

backend == <<projects, tasks, nextProjectId, nextTaskId, req, hist, served>>

\* Rows as the server returns them: MaxTasks tasks of project 1, created
\* one after the other, and MaxProjects projects.
SampleTasks == [t \in 1..MaxTasks |-> StoredTask(CreateItem(ItemPlain), 1, t)]
SampleProjects ==
  [p \in 1..MaxProjects |-> [name |-> "n1", description |-> "pd", startDate |-> 20240101]]

SampleTask == TaskRow(SampleTasks, 1)
SampleProject == ProjectData(SampleProjects, 1, <<>>)
SampleTaskList == CHOOSE l \in NewestFirst(SampleTasks, 1) : TRUE
SampleProjectList == [p \in 1..MaxProjects |-> ProjectData(SampleProjects, p, <<>>)]

\* The id a delete thunk was called with and hands on in its payload.
PayloadIds == {"1", "2", "3", "abc"}

TaskThunks ==
  {"tasks/insertTask", "tasks/updateTask", "tasks/deleteTask", "tasks/getAllTasks",
   "tasks/getTaskById", "tasks/toggleTaskCompletion", "tasks/updateTaskStatus"}
ProjectThunks ==
  {"projects/insertProject", "projects/updateProject", "projects/deleteProject",
   "projects/getAllProjects", "projects/getProjectById"}

\* What a thunk of the given type prefix can resolve to.
Payloads(thunk) ==
  CASE thunk \in {"tasks/deleteTask", "projects/deleteProject"} ->
         {[id |-> s, message |-> "deleted"] : s \in PayloadIds}
    [] thunk = "tasks/getAllTasks" -> {<<>>, SampleTaskList}
    [] thunk = "projects/getAllProjects" -> {<<>>, SampleProjectList}
    [] thunk \in {"tasks/updateTask", "tasks/toggleTaskCompletion",
                  "tasks/updateTaskStatus"} ->
         {[SampleTask EXCEPT !.isCompleted = TRUE]}
    [] thunk = "projects/updateProject" -> {[SampleProject EXCEPT !.name = "n2"]}
    [] thunk \in ProjectThunks -> {SampleProject}
    [] OTHER -> {SampleTask}

\* rejectWithValue(error.message)
Rejections == {Undefined, "Network Error"}

\* dispatch(reset()) of either slice.
reset ==
  /\ dispatched.n < MaxDispatches
  /\ \E slice \in {"tasks", "projects"} :
       Dispatch([type |-> slice \o "/reset", payload |-> Undefined])
  /\ UNCHANGED <<backend, thunks, isOpen, app, instance, stats>>

\* A thunk starts: its pending action.
pending ==
  /\ dispatched.n < MaxDispatches
  /\ \E thunk \in TaskThunks \cup ProjectThunks :
       Dispatch([type |-> thunk \o "/pending", payload |-> Undefined])
  /\ UNCHANGED <<backend, thunks, isOpen, app, instance, stats>>

\* A thunk resolves: its fulfilled action.
fulfilled ==
  /\ dispatched.n < MaxDispatches
  /\ \E thunk \in TaskThunks \cup ProjectThunks :
       \E payload \in Payloads(thunk) :
         Dispatch([type |-> thunk \o "/fulfilled", payload |-> payload])
  /\ UNCHANGED <<backend, thunks, isOpen, app, instance, stats>>

\* A thunk fails: its rejected action.
rejected ==
  /\ dispatched.n < MaxDispatches
  /\ \E thunk \in TaskThunks \cup ProjectThunks :
       \E payload \in Rejections :
         Dispatch([type |-> thunk \o "/rejected", payload |-> payload])
  /\ UNCHANGED <<backend, thunks, isOpen, app, instance, stats>>

StoreNext == reset \/ pending \/ fulfilled \/ rejected

StoreSpec == Init /\ [][StoreNext]_vars

\* --------------------------------------------------------------- C24
\* A dispatched action of the given type reaches the reducers in this step.
Reduces(type) == dispatched'.n = dispatched.n + 1 /\ dispatched'.type = type

\* The flags and the message of a slice state are back at their idle values.
Cleared(state) ==
  /\ state.loading = FALSE
  /\ state.error = FALSE
  /\ state.insertSuccess = FALSE
  /\ state.updateSuccess = FALSE
  /\ state.deleteSuccess = FALSE
  /\ state.message = ""

\* C24: reset of the task slice and reset of the project slice set loading,
\* error, insertSuccess, updateSuccess and deleteSuccess to false, message
\* to the empty string and the selected item to null, and leave the
\* collection of the slice as it was.
C24_ResetKeepsCollection ==
  [][/\ Reduces("tasks/reset") =>
          /\ Cleared(TaskReducer')
          /\ TaskReducer'.task = Null
          /\ TaskReducer'.tasks = TaskReducer.tasks
     /\ Reduces("projects/reset") =>
          /\ Cleared(ProjectReducer')
          /\ ProjectReducer'.project = Null
          /\ ProjectReducer'.projects = ProjectReducer.projects]_vars

\* A reset of the task slice has just acted on a store whose two
\* collections hold items.
C24_Witness ==
  /\ dispatched.type = "tasks/reset"
  /\ TaskReducer.tasks # <<>>
  /\ ProjectReducer.projects # <<>>

\* ------------------------------------------------ the client at work
\* Tasks the user deletes in one run.
MaxClicks == 1

\* dispatch of each action of the list, in turn.
RECURSIVE ReduceAll(_, _)
ReduceAll(store, actions) ==
  IF actions = <<>> THEN store
  ELSE ReduceAll([TaskReducer |-> TaskSlice(store.TaskReducer, Head(actions)),
                  ProjectReducer |-> ProjectSlice(store.ProjectReducer, Head(actions))],
                 Tail(actions))

DispatchAll(actions) ==
  LET store == ReduceAll([TaskReducer |-> TaskReducer, ProjectReducer |-> ProjectReducer],
                         actions)
      last == actions[Len(actions)]
  IN /\ TaskReducer' = store.TaskReducer
     /\ ProjectReducer' = store.ProjectReducer
     /\ dispatched' = [type |-> last.type, payload |-> last.payload,
                       n |-> dispatched.n + Len(actions)]

\* createAsyncThunk: dispatching the thunk dispatches its pending action
\* and runs the payload creator up to its await, the request on its way.
Launched(type, arg) ==
  [type |-> type, arg |-> arg, stage |-> "request", ok |-> FALSE, payload |-> Undefined]
PendingOf(type) == [type |-> type \o "/pending", payload |-> Undefined]
ResetOf(slice) == [type |-> slice \o "/reset", payload |-> Undefined]

\* handleResponse: what a response that is not ok, or no response, throws.
OperationError == "An error occurred during the operation."

\* The project the modal was opened for.
OpenProject == 1

\* handleTaskUpdate, and the same three dispatches in the effect: the tasks
\* of the project, the projects, and the projects again by onProjectsUpdate.
RefreshThunks ==
  <<Launched("tasks/getAllTasks", OpenProject), Launched("projects/getAllProjects", Undefined),
    Launched("projects/getAllProjects", Undefined)>>
RefreshActions ==
  <<PendingOf("tasks/getAllTasks"), PendingOf("projects/getAllProjects"),
    PendingOf("projects/getAllProjects")>>

\* The database the client works on: the sample rows, all tasks in the
\* project the modal is opened for.
ClientInit ==
  /\ projects = SampleProjects
  /\ tasks = SampleTasks
  /\ nextProjectId = MaxProjects + 1
  /\ nextTaskId = MaxTasks + 1
  /\ req = [r \in Slots |-> IdleReq]
  /\ hist = [t \in DOMAIN SampleTasks |-> OtherWrite]
  /\ served = 0
  /\ ElsewhereIdle

\* The modal opens: its first effect loads the tasks and resets the slice.
openModal ==
  /\ ~isOpen
  /\ isOpen' = TRUE
  /\ thunks' = thunks \o <<Launched("tasks/getAllTasks", OpenProject)>>
  /\ DispatchAll(<<PendingOf("tasks/getAllTasks"), ResetOf("tasks")>>)
  /\ UNCHANGED <<backend, app, instance, stats>>

Clicks == Cardinality({i \in DOMAIN thunks : thunks[i].type = "tasks/deleteTask"})

\* The user deletes a task of the table and confirms.
handleDeleteTask ==
  /\ isOpen
  /\ Clicks < MaxClicks
  /\ \E k \in DOMAIN TaskReducer.tasks :
       LET id == ToString(TaskReducer.tasks[k].id)
       IN /\ thunks' = thunks \o <<Launched("tasks/deleteTask", id)>> \o RefreshThunks
          /\ DispatchAll(<<PendingOf("tasks/deleteTask")>> \o RefreshActions)
  /\ UNCHANGED <<backend, isOpen, app, instance, stats>>

\* The server handles the request of thunk i and answers.
Answer(i) ==
  LET t == thunks[i]
      answered(ok, payload) ==
        thunks' = [thunks EXCEPT ![i].stage = "response", ![i].ok = ok,
                                 ![i].payload = payload]
  IN CASE t.type = "tasks/deleteTask" ->
            LET id == Number(t.arg)
            IN IF id \in DOMAIN tasks
               THEN /\ tasks' = Without(tasks, {id})
                    /\ hist' = Without(hist, {id})
                    /\ answered(TRUE, [id |-> t.arg, message |-> "Task deleted successfully"])
               ELSE /\ answered(FALSE, OperationError)
                    /\ UNCHANGED <<tasks, hist>>
       [] t.type = "tasks/getAllTasks" ->
            /\ \E list \in NewestFirst(tasks, t.arg) : answered(TRUE, list)
            /\ UNCHANGED <<tasks, hist>>
       [] OTHER ->
            /\ answered(TRUE, [p \in DOMAIN projects |->
                                 ProjectData(projects, p, TasksIncluded(tasks, p))])
            /\ UNCHANGED <<tasks, hist>>

serve ==
  /\ \E i \in DOMAIN thunks : thunks[i].stage = "request" /\ Answer(i)
  /\ UNCHANGED <<projects, nextProjectId, nextTaskId, req, served, TaskReducer, ProjectReducer, dispatched, isOpen, app, instance, stats>>

\* The request of a thunk gets no answer, or one that is not ok.
requestFails ==
  /\ \E i \in DOMAIN thunks :
       /\ thunks[i].stage = "request"
       /\ thunks' = [thunks EXCEPT ![i].stage = "response", ![i].ok = FALSE,
                                   ![i].payload = OperationError]
  /\ UNCHANGED <<backend, TaskReducer, ProjectReducer, dispatched, isOpen, app, instance, stats>>

\* The response of thunk i reaches the browser: the thunk dispatches its
\* fulfilled or rejected action, and the effect of the modal on the success
\* flags of the task slice runs after the render that follows.
Settle(i) ==
  LET t == thunks[i]
      action == [type |-> t.type \o (IF t.ok THEN "/fulfilled" ELSE "/rejected"),
                 payload |-> t.payload]
      after == TaskSlice(TaskReducer, action)
      due == isOpen /\ (after.insertSuccess \/ after.updateSuccess \/ after.deleteSuccess)
      done == [thunks EXCEPT ![i].stage = "settled", ![i].payload = Undefined]
  IN IF due
     THEN /\ thunks' = done \o RefreshThunks
          /\ DispatchAll(<<action>> \o RefreshActions \o <<ResetOf("tasks")>>)
     ELSE /\ thunks' = done
          /\ DispatchAll(<<action>>)

settle ==
  /\ \E i \in DOMAIN thunks : thunks[i].stage = "response" /\ Settle(i)
  /\ UNCHANGED <<backend, isOpen, app, instance, stats>>

ClientNext == openModal \/ handleDeleteTask \/ serve \/ requestFails \/ settle

ClientSpec == ClientInit /\ [][ClientNext]_vars

\* --------------------------------------------------------------- C25
\* Thunks of the task slice that were dispatched and have not settled.
TaskThunksInFlight ==
  {i \in DOMAIN thunks : thunks[i].type \in TaskThunks /\ thunks[i].stage # "settled"}

\* C25: the task slice has loading true in every state in which at least
\* one task thunk has been dispatched and has not yet settled, also when
\* deleteTaskAsync and getAllTasksAsync are in flight together.
C25_LoadingWhileInFlight == TaskThunksInFlight # {} => TaskReducer.loading

\* --------------------------------------------------------------- C26
\* C26: once every thunk has settled after handleDeleteTask deleted a task,
\* the tasks of the store hold no task that the database no longer has,
\* whatever the order of the requests on the server and of the responses.
C26_DeletedTaskLeavesStore ==
  (\A i \in DOMAIN thunks : thunks[i].stage = "settled")
    => \A k \in DOMAIN TaskReducer.tasks : TaskReducer.tasks[k].id \in DOMAIN tasks

\* --------------------------------------------------------------- C27
\* The items of list whose id is not the number the string id stands for.
OthersThan(list, id) ==
  LET other(item) == item.id # Number(id) IN SelectSeq(list, other)

\* C27: the fulfilled action of deleteTaskAsync and of deleteProjectAsync
\* removes from the collection of its slice exactly the items whose id is
\* Number(payload.id); a payload id that matches no item, or that is not a
\* string of digits, leaves the collection as it was.
C27_DeleteRemovesOnlyThatId ==
  [][/\ Reduces("tasks/deleteTask/fulfilled") =>
          TaskReducer'.tasks = OthersThan(TaskReducer.tasks, dispatched'.payload.id)
     /\ Reduces("projects/deleteProject/fulfilled") =>
          ProjectReducer'.projects =
            OthersThan(ProjectReducer.projects, dispatched'.payload.id)]_vars

\* ------------------------------------------------- project statistics
\* Tasks of the largest Project instance.
MaxInstanceTasks == 200

\* this.data.tasks of an instance: completed tasks first, then pending ones.
TaskArray(completed, total) ==
  [i \in 1..total |-> [id |-> i, isCompleted |-> i <= completed]]

\* The quotients (completed, total), up to 220 tasks, whose hundredfold
\* falls just below a half in double arithmetic although it is a half
\* exactly: 23 / 40 * 100 is 57.49999999999999.
BelowHalf ==
  {<<23, 40>>, <<46, 80>>, <<69, 120>>, <<92, 160>>,
   <<29, 200>>, <<57, 200>>, <<113, 200>>, <<115, 200>>}

\* Math.round((completed / total) * 100): to the nearest integer, a half
\* upwards.
RoundedPercentage(completed, total) ==
  LET nearest == (200 * completed + total) \div (2 * total)
  IN IF <<completed, total>> \in BelowHalf THEN nearest - 1 ELSE nearest

\* Project.getProjectStatus()
getProjectStatus(data) ==
  LET list == IF data.hasTasks THEN data.tasks ELSE <<>>
      isCompleted(task) == task.isCompleted
      completedTasks == Len(SelectSeq(list, isCompleted))
  IN CASE Len(list) = 0 -> "not_started"
       [] completedTasks = 0 -> "not_started"
       [] completedTasks = Len(list) -> "completed"
       [] OTHER -> "in_progress"

\* Project.getBasicStats(), without the duration, which is read off the clock.
BasicStats(data) ==
  LET list == IF data.hasTasks THEN data.tasks ELSE <<>>
      isCompleted(task) == task.isCompleted
      totalTasks == Len(list)
      completedTasks == Len(SelectSeq(list, isCompleted))
  IN [totalTasks |-> totalTasks,
      completedTasks |-> completedTasks,
      pendingTasks |-> totalTasks - completedTasks,
      completionPercentage |->
        IF totalTasks > 0 THEN RoundedPercentage(completedTasks, totalTasks) ELSE 0,
      status |-> getProjectStatus(data)]

\* A Project instance over any row: with its tasks not loaded, or with any
\* number of tasks of which any number is completed.
StatsInit ==
  /\ projects = <<>>
  /\ tasks = <<>>
  /\ nextProjectId = 1
  /\ nextTaskId = 1
  /\ req = [r \in Slots |-> IdleReq]
  /\ hist = <<>>
  /\ served = 0
  /\ TaskReducer = TaskInitialState
  /\ ProjectReducer = ProjectInitialState
  /\ dispatched = NoAction
  /\ thunks = <<>>
  /\ isOpen = FALSE
  /\ app = NoProcess
  /\ stats = NoStats
  /\ instance \in {NoInstance} \cup
       UNION {{[hasTasks |-> TRUE, tasks |-> TaskArray(completed, total)] : completed \in 0..total} :
                total \in 0..MaxInstanceTasks}

getBasicStats ==
  /\ stats = NoStats
  /\ stats' = BasicStats(instance)
  /\ UNCHANGED <<backend, TaskReducer, ProjectReducer, dispatched, thunks, isOpen, app, instance>>

StatsNext == getBasicStats

StatsSpec == StatsInit /\ [][StatsNext]_vars

\* --------------------------------------------------------------- C28
\* C28: for every Project instance, what getBasicStats() returns has
\* completedTasks + pendingTasks = totalTasks and a completionPercentage
\* from 0 to 100 that is 100 exactly when the status is 'completed'.
C28_StatsConsistent ==
  stats # NoStats =>
    /\ stats.completedTasks + stats.pendingTasks = stats.totalTasks
    /\ stats.completionPercentage \in 0..100
    /\ stats.completionPercentage = 100 <=> stats.status = "completed"

\* ------------------------------------------------- start of the process
\* Requests the server accepts in one run.
MaxAccepted == 3

Signals == {"SIGTERM", "SIGINT"}

\* new App(): express() and http.createServer(this.app).
Constructor ==
  /\ app.pc = "none"
  /\ app' = [app EXCEPT !.pc = "constructor", !.server = "created"]

\* this.setupMiddlewares()
setupMiddlewares ==
  /\ app.pc = "constructor"
  /\ app' = [app EXCEPT !.pc = "setupMiddlewares",
                        !.middlewares = <<"json", "urlencoded", "cors">>]

\* this.setupRoutes()
setupRoutes ==
  /\ app.pc = "setupMiddlewares"
  /\ app' = [app EXCEPT !.pc = "setupRoutes", !.routes = <<"/api", "/">>]

\* this.setupDatabase(), up to its await: the connection is being made and
\* the constructor goes on without the promise.
setupDatabase ==
  /\ app.pc = "setupRoutes"
  /\ app' = [app EXCEPT !.pc = "setupDatabase", !.db = "connecting"]

\* app.start(): this.server.listen(...) asks for the port; the module is
\* evaluated and the event loop takes over.
start ==
  /\ app.pc = "setupDatabase"
  /\ app' = [app EXCEPT !.pc = "start", !.server = "starting"]

Running == app.pc = "start" /\ app.exit = NotExited

\* The port is bound: the callback of listen runs.
listening ==
  /\ Running
  /\ app.server = "starting"
  /\ app' = [app EXCEPT !.server = "listening"]

\* prisma.$connect() resolves.
connected ==
  /\ Running
  /\ app.db = "connecting"
  /\ app' = [app EXCEPT !.db = "connected"]

\* prisma.$connect() rejects: process.exit(1).
connectionFailed ==
  /\ Running
  /\ app.db = "connecting"
  /\ app' = [app EXCEPT !.db = "failed", !.exit = 1]

\* The listening server accepts a request; noted with the state of the
\* database connection at that moment.
accept ==
  /\ Running
  /\ app.server = "listening"
  /\ Len(app.accepted) < MaxAccepted
  /\ app' = [app EXCEPT !.accepted = Append(@, app.db)]

\* A signal arrives: its handler runs up to await app.stop(), which waits
\* for prisma.$disconnect().
signal(s) ==
  /\ Running
  /\ app[s] = "idle"
  /\ app' = [app EXCEPT ![s] = "stopping"]

\* prisma.$disconnect() is done: this.server.close() and process.exit(0).
stopped(s) ==
  /\ Running
  /\ app[s] = "stopping"
  /\ app' = [app EXCEPT ![s] = "stopped", !.db = "disconnected", !.server = "closed",
                        !.exit = 0]

AppStep ==
  \/ Constructor
  \/ setupMiddlewares
  \/ setupRoutes
  \/ setupDatabase
  \/ start
  \/ listening
  \/ connected
  \/ connectionFailed
  \/ accept
  \/ \E s \in Signals : signal(s)
  \/ \E s \in Signals : stopped(s)

AppNext ==
  AppStep /\ UNCHANGED <<backend, TaskReducer, ProjectReducer, dispatched, thunks,
                         isOpen, instance, stats>>

AppSpec == Init /\ [][AppNext]_vars

\* --------------------------------------------------------------- C29
\* C29: the application starts in the order Constructor, setupMiddlewares,
\* setupRoutes, setupDatabase, start; the HTTP server begins to listen only
\* after the database connection has been established, and when the
\* connection fails the process exits with code 1 without having accepted
\* a request.
C29_ListensOnceConnected ==
  [][/\ app'.pc # app.pc =>
          <<app.pc, app'.pc>> \in
            {<<"none", "constructor">>, <<"constructor", "setupMiddlewares">>,
             <<"setupMiddlewares", "setupRoutes">>, <<"setupRoutes", "setupDatabase">>,
             <<"setupDatabase", "start">>}
     /\ (app.server # "listening" /\ app'.server = "listening") => app.db = "connected"
     /\ (app.db = "connecting" /\ app'.db = "failed") =>
          app'.exit = 1 /\ app'.accepted = <<>>]_vars

====
